---- MODULE Spec2Model ----
(***************************************************************************)
(* Model of the Grok agent-tools API client (grok-api.ts + schemas.ts):    *)
(* client construction, response normalization, schema validation and the  *)
(* retry loop of GrokApiClient.chat().                                     *)
(*                                                                         *)
(* Conventions.  An optional value (a field that may be `undefined`) is a  *)
(* set with at most one element: {} is undefined, {v} is the value v.      *)
(* A JavaScript string whose characters matter is a sequence of one-       *)
(* character strings, so that "" is << >> and + is \o.                     *)
(***************************************************************************)
EXTENDS Integers, Sequences, FiniteSets, TLC

\* ------------------------------------------------------------------------
\* Bounds of the model
\* ------------------------------------------------------------------------
MaxOutput == 2      \* longest `output` array of an AgentResponse
MaxBlocks == 2      \* longest content-block array of one output item
MaxKeyLen == 2      \* longest API key string tried at construction
MaxAccesses == 3    \* most property reads on grokApi in one run

\* ------------------------------------------------------------------------
\* Program constants
\* ------------------------------------------------------------------------
MAX_RETRIES_OffByOne == 3 + 1
MAX_RETRIES == 3
RETRYABLE_STATUS_CODES_No504 == {429, 500, 502, 503}
RETRYABLE_STATUS_CODES_With403 == {403, 429, 500, 502, 503, 504}
RETRYABLE_STATUS_CODES == {429, 500, 502, 503, 504}
BackoffUnit == 2000

\* ------------------------------------------------------------------------
\* Generic helpers
\* ------------------------------------------------------------------------
None == {}
Some(x) == {x}
Get(o) == CHOOSE x \in o : TRUE

SeqsUpTo(S, n) == UNION {[1..k -> S] : k \in 0..n}

\* ------------------------------------------------------------------------
\* Upstream wire shape (schemas.ts)
\* ------------------------------------------------------------------------
\* A content block: {type, text?, annotations?}
ContentBlocks ==
    { [type |-> "output_text", text |-> Some(<<"a">>),
       annotations |-> Some(<<[type |-> "url_citation", url |-> Some("u1")]>>)],
      [type |-> "output_text", text |-> Some(<<"b">>),
       annotations |-> Some(<<[type |-> "file_citation", url |-> Some("u2")],
                              [type |-> "url_citation", url |-> Some("u1")],
                              [type |-> "url_citation", url |-> None]>>)],
      [type |-> "refusal", text |-> Some(<<"x">>),
       annotations |-> Some(<<[type |-> "url_citation", url |-> Some("")],
                              [type |-> "url_citation", url |-> Some("u4")]>>)] }

\* content?: string | OutputContent[]
NoContent == [kind |-> "undefined", str |-> << >>, blocks |-> << >>]
StringContent(s) == [kind |-> "string", str |-> s, blocks |-> << >>]
ArrayContent(bs) == [kind |-> "array", str |-> << >>, blocks |-> bs]

MessageContents ==
    { NoContent, StringContent(<<"s">>), StringContent(<< >>),
      ArrayContent(<<[type |-> "output_text", text |-> None, annotations |-> None]>>),
      ArrayContent(<<[type |-> "output_text", text |-> Some(<< >>),
                      annotations |-> Some(<< >>)]>>) }
    \cup {ArrayContent(bs) : bs \in SeqsUpTo(ContentBlocks, MaxBlocks)}

OutputItemTypes == {"message", "tool_use", "tool_result", "custom_tool_call"}

OutputItems ==
    {[type |-> "message", content |-> c] : c \in MessageContents}
    \cup { [type |-> "tool_use", content |-> StringContent(<<"t">>)],
           [type |-> "tool_result",
            content |-> ArrayContent(<<[type |-> "output_text", text |-> Some(<<"r">>),
                                        annotations |-> Some(<<[type |-> "url_citation",
                                                                url |-> Some("u3")]>>)]>>)],
           [type |-> "custom_tool_call", content |-> NoContent] }

\* usage?: {input_tokens, output_tokens, total_tokens}
Usages ==
    { [input_tokens |-> Some(3), output_tokens |-> Some(4), total_tokens |-> Some(7)],
      [input_tokens |-> Some(3), output_tokens |-> Some(4), total_tokens |-> Some(9)] }

\* created_at?: number    (t = "string" is a payload that breaks the schema)
Undefined == [t |-> "undefined", v |-> 0]
Num(n) == [t |-> "number", v |-> n]
Str(n) == [t |-> "string", v |-> n]

\* A payload of the shape the schema describes, with the given output array.
AgentResponse(out, created, usage) ==
    [id |-> Some("resp_1"), object |-> Some("response"), created_at |-> created,
     model |-> Some("grok-4-1-fast"), output |-> Some(out), usage |-> usage]

\* OutputContentSchema / AnnotationSchema: type is required, the rest optional
OutputContentSchema(b) == b.type \in STRING

\* OutputItemSchema
OutputItemSchema(item) ==
    /\ item.type \in OutputItemTypes
    /\ item.content.kind = "array" =>
          \A i \in 1..Len(item.content.blocks) : OutputContentSchema(item.content.blocks[i])

\* UsageSchema
UsageSchema(u) ==
    u.input_tokens # None /\ u.output_tokens # None /\ u.total_tokens # None

\* GrokAgentResponseSchema.safeParse(data).success
GrokAgentResponseSchema(r) ==
    /\ r.id # None
    /\ r.object = Some("response")
    /\ r.created_at.t \in {"undefined", "number"}
    /\ r.model # None
    /\ r.output # None
    /\ Len(Get(r.output)) >= 1
    /\ \A i \in 1..Len(Get(r.output)) : OutputItemSchema(Get(r.output)[i])
    /\ r.usage # None => UsageSchema(Get(r.usage))

\* ------------------------------------------------------------------------
\* GrokApiClient.normalizeResponse
\* ------------------------------------------------------------------------
\* `ann.url` as a condition: undefined and "" are falsy
HasUrl(ann) == ann.url # None /\ Get(ann.url) # ""

\* ScanAnnotations that skips a URL already in the list
RECURSIVE ScanAnnotations_Dedup(_, _, _)
ScanAnnotations_Dedup(anns, k, citations) ==
    IF k > Len(anns) THEN citations
    ELSE ScanAnnotations_Dedup(anns, k + 1,
            IF anns[k].type = "url_citation" /\ HasUrl(anns[k])
               /\ \A i \in 1..Len(citations) : citations[i] # Get(anns[k].url)
            THEN Append(citations, Get(anns[k].url))
            ELSE citations)

\* inner loop over block.annotations: push the url of every url_citation
RECURSIVE ScanAnnotations(_, _, _)
ScanAnnotations(anns, k, citations) ==
    IF k > Len(anns) THEN citations
    ELSE ScanAnnotations(anns, k + 1,
            IF anns[k].type = "url_citation" /\ HasUrl(anns[k])
            THEN Append(citations, Get(anns[k].url))
            ELSE citations)

\* loop over output.content: acc is the pair (content, citations) so far
RECURSIVE ScanBlocks(_, _, _)
ScanBlocks(blocks, j, acc) ==
    IF j > Len(blocks) THEN acc
    ELSE LET block == blocks[j]
             content == IF block.type = "output_text" /\ block.text # None
                           /\ Get(block.text) # << >>
                        THEN acc.content \o Get(block.text)
                        ELSE acc.content
             citations == IF block.annotations # None
                          THEN ScanAnnotations(Get(block.annotations), 1, acc.citations)
                          ELSE acc.citations
         IN ScanBlocks(blocks, j + 1, [content |-> content, citations |-> citations])

\* ScanItem without the `output.type === 'message'` test
ScanItem_AnyType(output, acc) ==
    IF output.content.kind = "array"
    THEN ScanBlocks(output.content.blocks, 1, acc)
    ELSE IF output.content.kind = "string"
         THEN [acc EXCEPT !.content = @ \o output.content.str]
         ELSE acc

\* body of the loop over agentResponse.output, for one output item
ScanItem(output, acc) ==
    IF output.type = "message"
    THEN IF output.content.kind = "array"
         THEN ScanBlocks(output.content.blocks, 1, acc)
         ELSE IF output.content.kind = "string"
              THEN [acc EXCEPT !.content = @ \o output.content.str]
              ELSE acc
    ELSE acc

RECURSIVE ScanOutput(_, _, _)
ScanOutput(outputs, i, acc) ==
    IF i > Len(outputs) THEN acc
    ELSE ScanOutput(outputs, i + 1, ScanItem(outputs[i], acc))

\* for..of over a missing output array raises a TypeError
normalizeThrows(agentResponse) == agentResponse.output = None

\* created: agentResponse.created_at || Date.now()
Truthy(c) == c.t = "string" \/ (c.t = "number" /\ c.v # 0)

\* CreatedField without the `|| Date.now()` fallback
CreatedField_NoFallback(created_at, now) == created_at

\* created: agentResponse.created_at || Date.now()
CreatedField(created_at, now) == IF Truthy(created_at) THEN created_at ELSE Num(now)

\* CitationsField that attaches the list even when it is empty
CitationsField_Always(citations) == Some(citations)

\* citations: citations.length > 0 ? citations : undefined
CitationsField(citations) == IF Len(citations) > 0 THEN Some(citations) ELSE None

normalizeResponse(agentResponse, now) ==
    LET acc == ScanOutput(Get(agentResponse.output), 1,
                          [content |-> << >>, citations |-> << >>])
    IN [ id |-> agentResponse.id,
         object |-> agentResponse.object,
         created |-> CreatedField(agentResponse.created_at, now),
         model |-> agentResponse.model,
         choices |-> << [index |-> 0,
                         message |-> [role |-> "assistant", content |-> acc.content],
                         finish_reason |-> "stop"] >>,
         usage |-> IF agentResponse.usage # None
                   THEN Some([prompt_tokens |-> Get(agentResponse.usage).input_tokens,
                              completion_tokens |-> Get(agentResponse.usage).output_tokens,
                              total_tokens |-> Get(agentResponse.usage).total_tokens])
                   ELSE None,
         citations |-> CitationsField(acc.citations) ]

\* NormalizedUsageSchema
NormalizedUsageSchema(u) ==
    u.prompt_tokens # None /\ u.completion_tokens # None /\ u.total_tokens # None

\* GrokChatResponseSchema.safeParse(normalized).success
GrokChatResponseSchema(n) ==
    /\ n.id # None
    /\ n.object # None
    /\ n.created.t = "number"
    /\ n.model # None
    /\ Len(n.choices) >= 1
    /\ n.usage # None => NormalizedUsageSchema(Get(n.usage))


\* ------------------------------------------------------------------------
\* GrokApiClient constructor
\* ------------------------------------------------------------------------
GROK_API_BASE_URL == "https://api.x.ai/v1/responses"
ConfigModel == "grok-4-fast"         \* config.GROK_MODEL when the env sets none

IsWhitespace(c) == c \in {" ", "\t", "\n"}

\* String.prototype.trim
RECURSIVE trimStart(_)
trimStart(s) ==
    IF s # << >> /\ IsWhitespace(Head(s)) THEN trimStart(Tail(s)) ELSE s

RECURSIVE trimEnd(_)
trimEnd(s) ==
    IF s # << >> /\ IsWhitespace(s[Len(s)]) THEN trimEnd(SubSeq(s, 1, Len(s) - 1)) ELSE s

trim(s) == trimEnd(trimStart(s))

\* this.apiKey = apiKey !== undefined ? apiKey : config.GROK_API_KEY || ''
ResolveApiKey(apiKeyArg, configKey) ==
    IF apiKeyArg # None THEN Get(apiKeyArg)
    ELSE IF configKey # None /\ Get(configKey) # << >> THEN Get(configKey) ELSE << >>

\* ApiKeyRejected without the trim
ApiKeyRejected_NoTrim(key) == key = << >>

\* if (!this.apiKey || this.apiKey.trim() === '') throw ...
ApiKeyRejected(key) == key = << >> \/ trim(key) = << >>

\* Inputs of the constructor
ApiKeyArgs == {None} \cup {Some(k) : k \in SeqsUpTo({" ", "k"}, MaxKeyLen)}
                     \cup {Some(<<"\t">>), Some(<<"\n", " ">>)}
ConfigKeys == {None, Some(<< >>), Some(<<"c">>)}
BaseUrlArgs == {None, Some("https://custom.api")}
ModelArgs == {None}

\* ------------------------------------------------------------------------
\* Upstream outcomes of one axios.post
\* ------------------------------------------------------------------------
\* statuses the upstream may answer with (axios rejects on every non-2xx)
HttpErrorStatuses == {400, 401, 403, 404, 429, 500, 502, 503, 504}

NoPayload == None

\* AxiosError with a response: status and body of the upstream's error reply
HttpError(s, d) ==
    [kind |-> "axios", hasResponse |-> TRUE, status |-> s, data |-> d,
     isError |-> TRUE, message |-> <<"Request failed with status code">>, payload |-> NoPayload]

\* AxiosError without a response: connection failure or the 120 s timeout
AxiosNoResponse(m) ==
    [kind |-> "axios", hasResponse |-> FALSE, status |-> 0, data |-> None,
     isError |-> TRUE, message |-> m, payload |-> NoPayload]

\* A rejection that axios.isAxiosError does not recognise
OtherRejection(m, isErr) ==
    [kind |-> "other", hasResponse |-> FALSE, status |-> 0, data |-> None,
     isError |-> isErr, message |-> m, payload |-> NoPayload]

\* A 2xx reply carrying `data`
Reply(p) ==
    [kind |-> "ok", hasResponse |-> TRUE, status |-> 200, data |-> None,
     isError |-> FALSE, message |-> << >>, payload |-> Some(p)]

GoodPayload == AgentResponse(<<[type |-> "message", content |-> StringContent(<<"s">>)]>>,
                             Num(5), None)

ChatPayloads ==
    { GoodPayload,
      AgentResponse(<<[type |-> "tool_use", content |-> StringContent(<<"t">>)],
                      [type |-> "message",
                       content |-> ArrayContent(<<
                          [type |-> "output_text", text |-> Some(<<"a">>),
                           annotations |-> Some(<<[type |-> "url_citation",
                                                   url |-> Some("u1")]>>)],
                          [type |-> "output_text", text |-> Some(<<"b">>),
                           annotations |-> None]>>)]>>,
                    Undefined,
                    Some([input_tokens |-> Some(3), output_tokens |-> Some(4),
                          total_tokens |-> Some(7)])),
      AgentResponse(<< >>, Num(5), None),
      [GoodPayload EXCEPT !.object = Some("chat.completion")],
      [GoodPayload EXCEPT !.output = Some(<<[type |-> "reasoning",
                                             content |-> NoContent]>>)],
      [GoodPayload EXCEPT !.id = None],
      [GoodPayload EXCEPT !.created_at = Str(1)],
      [GoodPayload EXCEPT !.output = None] }

UpstreamOutcomes ==
    {HttpError(s, Some("e1")) : s \in HttpErrorStatuses}
    \cup {HttpError(s, d) : s \in {400, 500}, d \in {None, Some("")}}
    \cup {AxiosNoResponse(m) : m \in {<<"timeout of 120000ms exceeded">>,
                                      <<"connect ECONNREFUSED">>}}
    \cup {OtherRejection(<<"Network error">>, TRUE), OtherRejection(<<"thrown value">>, FALSE)}
    \cup {Reply(p) : p \in ChatPayloads}

NowValues == {1000, 1001}            \* readings of Date.now()

\* ------------------------------------------------------------------------
\* State
\* ------------------------------------------------------------------------
VARIABLES
    clientState,    \* "none" | "ready" | "failed": outcome of new GrokApiClient(...)
    ctorArgs,       \* arguments and config the constructor ran with
    client,         \* {apiKey, baseUrl, defaultModel} of the constructed client
    ctorError,      \* the error the constructor threw, if any
    pc,             \* position of the chat() invocation
    attempt,        \* loop variable of chat()
    calls,          \* number of axios.post calls made by the invocation
    delays,         \* the sleep(ms) arguments so far, in order
    hist,           \* status of each settled attempt (200 = reply, 0 = no response)
    last,           \* the outcome of the last settled attempt
    result,         \* the ChatResponse returned
    err,            \* the error chat() rejected with
    warnings,       \* how many 'Response validation warning' lines chat() logged
    request,        \* the argument chat() was called with
    body,           \* the const requestBody of the invocation, once built
    sent,           \* the arguments of each axios.post of the invocation, in order
    agentResponse,  \* argument of a direct normalizeResponse call
    normalized,     \* what that call returned
    reqNow,         \* the clock reading a request builder took
    reqCall,        \* the builder invoked and its arguments
    requestBody,    \* the body chat() built for that call
    inflight,       \* per concurrent chat() invocation: its locals and what it has seen
    envKey,         \* config.GROK_API_KEY as loaded at import
    grokApiInstance,\* the module variable _grokApiInstance (None = null)
    ctorCalls,      \* how many times the proxy ran new GrokApiClient()
    accesses,       \* the property reads on grokApi so far and what served them
    mcpPc,          \* position of the call-tool handler: "idle" | "awaitClient" | "done"
    mcpRequest,     \* request.params of the call being handled
    mcpThrown,      \* what the handler's try block threw, if anything
    mcpResult,      \* what the handler returned (or that it rejected)
    mcpClientCalls, \* how many client methods the handler has invoked
    feed,           \* what the upstream is scripted to answer, POST by POST
    legacy          \* the locals of a chat() invocation of the legacy client

vars == <<clientState, ctorArgs, client, ctorError, pc, attempt, calls, delays,
          hist, last, result, err, warnings, request, body, sent,
          agentResponse, normalized,
          reqNow, reqCall, requestBody, inflight,
          envKey, grokApiInstance, ctorCalls, accesses,
          mcpPc, mcpRequest, mcpThrown, mcpResult, mcpClientCalls,
          feed, legacy>>

clientVars == <<clientState, ctorArgs, client, ctorError>>
chatVars == <<pc, attempt, calls, delays, hist, last, result, err, warnings,
              request, body, sent>>
normVars == <<agentResponse, normalized>>
reqVars == <<reqNow, reqCall, requestBody>>
concVars == <<inflight>>
lazyVars == <<envKey, grokApiInstance, ctorCalls, accesses>>
mcpVars == <<mcpPc, mcpRequest, mcpThrown, mcpResult, mcpClientCalls>>
pairVars == <<feed, legacy>>
extVars == <<reqVars, concVars, lazyVars, mcpVars, pairVars>>
coreVars == <<clientVars, chatVars, normVars>>
notReqVars == <<coreVars, concVars, lazyVars, mcpVars, pairVars>>
notConcVars == <<coreVars, reqVars, lazyVars, mcpVars, pairVars>>
notLazyVars == <<coreVars, reqVars, concVars, mcpVars, pairVars>>
notMcpVars == <<coreVars, reqVars, concVars, pairVars>>
notPairVars == <<coreVars, reqVars, concVars, lazyVars, mcpVars>>


\* ------------------------------------------------------------------------
\* Errors
\* ------------------------------------------------------------------------
\* new GrokApiError(message, status, response?)
GrokApiError(message, status, response) ==
    [name |-> "GrokApiError", message |-> message, status |-> status,
     response |-> response]

\* new Error(message)
PlainError(message) ==
    [name |-> "Error", message |-> message, status |-> 0, response |-> None]

\* JSON.stringify(data): the serialized body, not the body itself
JSONstringify(d) == <<"JSON", d>>

\* ------------------------------------------------------------------------
\* new GrokApiClient(apiKey?, baseUrl?, defaultModel?)
\* ------------------------------------------------------------------------
\* a constructor that throws the typed error instead
ConfigError_Typed == GrokApiError(<<"GROK_API_KEY is required">>, 0, None)

\* throw new Error('GROK_API_KEY is required')
ConfigError == PlainError(<<"GROK_API_KEY is required">>)

Construct ==
    /\ clientState = "none"
    /\ \E apiKeyArg \in ApiKeyArgs, configKey \in ConfigKeys,
          baseUrlArg \in BaseUrlArgs, modelArg \in ModelArgs :
          LET key == ResolveApiKey(apiKeyArg, configKey)
          IN /\ ctorArgs' = [apiKey |-> apiKeyArg, configKey |-> configKey]
             /\ IF ApiKeyRejected(key)
                THEN /\ clientState' = "failed"
                     /\ ctorError' = Some(ConfigError)
                     /\ UNCHANGED client
                ELSE /\ clientState' = "ready"
                     /\ client' = [apiKey |-> key,
                                   baseUrl |-> IF baseUrlArg # None THEN Get(baseUrlArg)
                                               ELSE GROK_API_BASE_URL,
                                   defaultModel |-> IF modelArg # None THEN Get(modelArg)
                                                    ELSE ConfigModel]
                     /\ UNCHANGED ctorError
    /\ UNCHANGED chatVars
    /\ UNCHANGED normVars
    /\ UNCHANGED extVars

\* ------------------------------------------------------------------------
\* GrokApiClient.chat
\* ------------------------------------------------------------------------
\* for (let attempt = 0; attempt < MAX_RETRIES; attempt++)
LoopContinues(a) == a < MAX_RETRIES

\* const delay = (attempt + 1) * 2000
RetryDelay(a) == (a + 1) * BackoffUnit

isAxiosError(e) == e.kind = "axios"

\* ErrorStatus that never reads the response
ErrorStatus_AlwaysZero(e) == 0

\* axiosError.response?.status || 0
ErrorStatus(e) == IF e.hasResponse /\ e.status # 0 THEN e.status ELSE 0

\* a status test that retries on every attempt, the last included
ShouldRetryStatus_AnyAttempt(status, a) == status \in RETRYABLE_STATUS_CODES

\* RETRYABLE_STATUS_CODES.includes(status) && attempt < MAX_RETRIES - 1
ShouldRetryStatus(status, a) ==
    status \in RETRYABLE_STATUS_CODES /\ a < MAX_RETRIES - 1

\* a non-axios branch that waits after every attempt
ShouldRetryOther_Always(a) == TRUE

\* the non-axios branch: if (attempt < MAX_RETRIES - 1)
ShouldRetryOther(a) == a < MAX_RETRIES - 1

\* axiosError.response?.data ? JSON.stringify(axiosError.response.data) : axiosError.message
IsTruthyBody(d) == d # None /\ Get(d) # ""
AxiosErrorMessage(e) ==
    IF e.hasResponse /\ IsTruthyBody(e.data) THEN JSONstringify(Get(e.data)) ELSE e.message

\* a raw validation that fails the attempt
RawValidationThrows_Strict(data) == ~GrokAgentResponseSchema(data)

\* if (!parseResult.success) { logger.warn(...) }: "Still proceed with response"
RawValidationThrows(data) == FALSE

\* whether that branch logs its warning
RawValidationWarns(o) == o.kind = "ok" /\ ~GrokAgentResponseSchema(Get(o.payload))

\* The try block after the await: what it throws into the catch clause, if anything.
\* None stands for `return normalizedResponse`.
TryBlockThrows(o, now) ==
    IF o.kind # "ok" THEN Some(o)
    ELSE IF RawValidationThrows(Get(o.payload))
         THEN Some(OtherRejection(<<"Response validation failed">>, TRUE))
    ELSE IF normalizeThrows(Get(o.payload))
         THEN Some(OtherRejection(<<"TypeError: output is not iterable">>, TRUE))
         ELSE IF ~GrokChatResponseSchema(normalizeResponse(Get(o.payload), now))
              THEN Some(OtherRejection(<<"Invalid response structure: ", "ZodError">>, TRUE))
              ELSE None

\* ExhaustedError that rethrows what was caught instead of wrapping it
ExhaustedError_Rethrow(e) ==
    [name |-> "Error", message |-> e.message, status |-> 0, response |-> None]

\* throw new GrokApiError(`Grok API request failed: ${error instanceof Error ? ...}`, 0)
ExhaustedError(e) ==
    GrokApiError(<<"Grok API request failed: ">>
                    \o (IF e.isError THEN e.message ELSE <<"Unknown error">>),
                 0, None)

\* The catch clause: either sleep(delay) and continue, or throw a GrokApiError.
CatchClause(e, a) ==
    IF isAxiosError(e)
    THEN IF ShouldRetryStatus(ErrorStatus(e), a)
         THEN [retry |-> TRUE, delay |-> RetryDelay(a), error |-> None]
         ELSE [retry |-> FALSE, delay |-> 0,
               error |-> Some(GrokApiError(
                            <<"Grok API request failed: ">> \o AxiosErrorMessage(e),
                            ErrorStatus(e),
                            IF e.hasResponse THEN e.data ELSE None))]
    ELSE IF ShouldRetryOther(a)
         THEN [retry |-> TRUE, delay |-> RetryDelay(a), error |-> None]
         ELSE [retry |-> FALSE, delay |-> 0, error |-> Some(ExhaustedError(e))]

\* a body that always names the client's default model
BuildRequestBody_DefaultModel(req, defaultModel) ==
    [model |-> defaultModel, input |-> req.input, tools |-> req.tools,
     temperature |-> req.temperature, max_tokens |-> req.max_tokens]

\* chat(): const requestBody = { model: ..., input, ...(tools && {tools}), ... }
\* A field that is None is absent from the body.
BuildRequestBody(req, defaultModel) ==
    [model |-> IF req.model # None /\ Get(req.model) # ""
               THEN Get(req.model) ELSE defaultModel,
     input |-> req.input,
     tools |-> req.tools,
     temperature |-> req.temperature,
     max_tokens |-> IF req.max_tokens # None /\ Get(req.max_tokens) # 0
                    THEN req.max_tokens ELSE None]

\* axios.post(this.baseUrl, requestBody, { headers, timeout }): what goes out
PostArgs(cl, requestBodyConst) ==
    [url |-> cl.baseUrl,
     contentType |-> "application/json",
     authorization |-> <<"Bearer ">> \o cl.apiKey,
     body |-> requestBodyConst]

\* chat(request) up to its first suspension: the first axios.post is issued
ChatStart ==
    /\ clientState = "ready"
    /\ pc = "idle"
    /\ attempt' = 0
    /\ body' = Some(BuildRequestBody(request, client.defaultModel))
    /\ IF LoopContinues(0)
       THEN /\ pc' = "awaitPost"
            /\ calls' = calls + 1
            /\ sent' = Append(sent, PostArgs(client, Get(body')))
            /\ UNCHANGED err
       ELSE /\ pc' = "thrown"
            /\ err' = Some(GrokApiError(<<"Grok API request failed after max retries">>,
                                        0, None))
            /\ UNCHANGED <<calls, sent>>
    /\ UNCHANGED <<delays, hist, last, result, warnings, request>>
    /\ UNCHANGED clientVars
    /\ UNCHANGED normVars
    /\ UNCHANGED extVars

\* the awaited axios.post settles with outcome o; runs up to the next suspension
PostSettles ==
    /\ pc = "awaitPost"
    /\ \E o \in UpstreamOutcomes, now \in NowValues :
          LET thrown == TryBlockThrows(o, now)
          IN /\ last' = o
             /\ hist' = Append(hist, o.status)
             /\ warnings' = IF RawValidationWarns(o) THEN warnings + 1 ELSE warnings
             /\ IF thrown = None
                THEN /\ pc' = "returned"
                     /\ result' = Some(normalizeResponse(Get(o.payload), now))
                     /\ UNCHANGED <<delays, err>>
                ELSE LET c == CatchClause(Get(thrown), attempt)
                     IN IF c.retry
                        THEN /\ pc' = "sleeping"
                             /\ delays' = Append(delays, c.delay)
                             /\ UNCHANGED <<result, err>>
                        ELSE /\ pc' = "thrown"
                             /\ err' = c.error
                             /\ UNCHANGED <<delays, result>>
    /\ UNCHANGED <<attempt, calls, request, body, sent>>
    /\ UNCHANGED clientVars
    /\ UNCHANGED normVars
    /\ UNCHANGED extVars

\* the timer of sleep(delay) fires: `continue`, attempt++, and the next axios.post
SleepElapses ==
    /\ pc = "sleeping"
    /\ attempt' = attempt + 1
    /\ IF LoopContinues(attempt + 1)
       THEN /\ pc' = "awaitPost"
            /\ calls' = calls + 1
            /\ sent' = Append(sent, PostArgs(client, Get(body)))
            /\ UNCHANGED err
       ELSE /\ pc' = "thrown"
            /\ err' = Some(GrokApiError(<<"Grok API request failed after max retries">>,
                                        0, None))
            /\ UNCHANGED <<calls, sent>>
    /\ UNCHANGED <<delays, hist, last, result, warnings, request, body>>
    /\ UNCHANGED clientVars
    /\ UNCHANGED normVars
    /\ UNCHANGED extVars

\* ------------------------------------------------------------------------
\* normalizeResponse applied on its own to schema-valid payloads
\* ------------------------------------------------------------------------
\* the output arrays a schema-valid AgentResponse can carry (min(1))
ValidOutputs == SeqsUpTo(OutputItems, MaxOutput) \ {<< >>}

SampleOutputs == {out \in ValidOutputs : Len(out) = 1 /\ out[1].type = "message"
                                          /\ out[1].content.kind # "array"}

NormInputs ==
    {AgentResponse(out, Num(5), None) : out \in ValidOutputs}
    \cup {AgentResponse(out, c, u) :
             out \in SampleOutputs,
             c \in {Undefined, Num(0), Num(5)},
             u \in {None} \cup {Some(x) : x \in Usages}}

Normalize ==
    /\ normalized = None
    /\ ~normalizeThrows(agentResponse)
    /\ \E now \in NowValues : normalized' = Some(normalizeResponse(agentResponse, now))
    /\ UNCHANGED agentResponse
    /\ UNCHANGED <<clientVars, chatVars>>
    /\ UNCHANGED extVars

\* ------------------------------------------------------------------------
\* Dates.  Instants are counted in seconds since the epoch (1 unit = 1000 ms
\* of Date.getTime()); calendar dates are records [y, m, d] in UTC.
\* ------------------------------------------------------------------------
DaySeconds == 86400                 \* 24 * 60 * 60 * 1000 ms

\* the UTC calendar date of day number n (days since 1970-01-01)
CivilFromDays(n) ==
    LET z == n + 719468
        era == z \div 146097
        doe == z - era * 146097
        yoe == (doe - doe \div 1460 + doe \div 36524 - doe \div 146096) \div 365
        doy == doe - (365 * yoe + yoe \div 4 - yoe \div 100)
        mp == (5 * doy + 2) \div 153
        day == doy - (153 * mp + 2) \div 5 + 1
        month == IF mp < 10 THEN mp + 3 ELSE mp - 9
        year == yoe + era * 400 + (IF month <= 2 THEN 1 ELSE 0)
    IN [y |-> year, m |-> month, d |-> day]

\* date.toISOString().split('T')[0]
toISODate(t) == CivilFromDays(t \div DaySeconds)

\* getDateRange whose '7d' case is missing and falls to the default
getDateRange_No7d(timeWindow, now) ==
    LET from == IF timeWindow \in {"15min", "1hr", "4hr"} THEN now ELSE now - DaySeconds
    IN [from_date |-> Some(toISODate(from)), to_date |-> Some(toISODate(now))]

\* getDateRange whose default case starts the range today
getDateRange_DefaultToday(timeWindow, now) ==
    LET from == CASE timeWindow = "24hr" -> now - DaySeconds
                  [] timeWindow = "7d" -> now - 7 * DaySeconds
                  [] OTHER -> now
    IN [from_date |-> Some(toISODate(from)), to_date |-> Some(toISODate(now))]

\* GrokApiClient.getDateRange, with `now` the reading of new Date()
getDateRange(timeWindow, now) ==
    LET to_date == toISODate(now)
        from == CASE timeWindow \in {"15min", "1hr", "4hr"} -> now
                  [] timeWindow = "24hr" -> now - DaySeconds
                  [] timeWindow = "7d" -> now - 7 * DaySeconds
                  [] OTHER -> now - DaySeconds
    IN [from_date |-> Some(toISODate(from)), to_date |-> Some(to_date)]

\* ------------------------------------------------------------------------
\* Request builders: searchPosts, analyzeTopic, getTrends, generalChat
\* Temperatures are counted in tenths (0.3 is 3).
\* ------------------------------------------------------------------------
\* {type: 'x_search', from_date?, to_date?}
XSearchTool(from_date, to_date) ==
    [type |-> "x_search", from_date |-> from_date, to_date |-> to_date]

UserInput(prompt) == <<[role |-> "user", content |-> prompt]>>

\* const { x = dflt } = options
OrDefault(o, dflt) == IF o = None THEN dflt ELSE Get(o)

\* a searchPosts that asks the upstream for at most `limit` tokens
searchPosts_WithLimit(query, options, now) ==
    LET timeWindow == OrDefault(options.timeWindow, "4hr")
        dateRange == getDateRange(timeWindow, now)
    IN [model |-> None, input |-> UserInput(<<query, timeWindow>>),
        tools |-> Some(<<XSearchTool(dateRange.from_date, dateRange.to_date)>>),
        temperature |-> Some(3), max_tokens |-> options.limit]

analysisInstructions(analysisType) ==
    CASE analysisType = "sentiment" -> "Focus on sentiment analysis"
      [] analysisType = "themes" -> "Focus on thematic analysis"
      [] analysisType = "both" -> "Analyze both sentiment and themes"

searchPosts(query, options, now) ==
    LET timeWindow == OrDefault(options.timeWindow, "4hr")
        analysisType == OrDefault(options.analysisType, "both")
        dateRange == getDateRange(timeWindow, now)
        prompt == <<"Search X/Twitter and analyze recent posts about: ", query,
                    "Time window: ", timeWindow, analysisInstructions(analysisType),
                    "time_window: ", timeWindow>>
    IN [model |-> None, input |-> UserInput(prompt),
        tools |-> Some(<<XSearchTool(dateRange.from_date, dateRange.to_date)>>),
        temperature |-> Some(3), max_tokens |-> None]

analyzeTopic(topic, aspects, options, now) ==
    LET timeWindow == OrDefault(options.timeWindow, "4hr")
        dateRange == getDateRange(timeWindow, now)
        prompt == <<"Search X/Twitter and analyze posts about: ", topic,
                    "Focus on these specific aspects: ", aspects,
                    "Time window: ", timeWindow>>
    IN [model |-> None, input |-> UserInput(prompt),
        tools |-> Some(<<XSearchTool(dateRange.from_date, dateRange.to_date)>>),
        temperature |-> Some(3), max_tokens |-> None]

\* TrendsTool whose from_date is computed as for the default window
TrendsTool_Yesterday(now) ==
    XSearchTool(Some(toISODate(now - DaySeconds)), Some(toISODate(now)))

\* const today = new Date().toISOString().split('T')[0]; from_date: today, to_date: today
TrendsTool(now) == XSearchTool(Some(toISODate(now)), Some(toISODate(now)))

getTrends(options, now) ==
    LET categoryText == IF options.category # None /\ Get(options.category) # ""
                        THEN <<" in the ", Get(options.category), " category">>
                        ELSE << >>
        prompt == <<"Search X/Twitter and identify the trending topics">> \o categoryText
    IN [model |-> None, input |-> UserInput(prompt),
        tools |-> Some(<<TrendsTool(now)>>),
        temperature |-> Some(3), max_tokens |-> None]

\* GeneralChatTools that sends an empty list instead of no tools
GeneralChatTools_EmptyList(enableSearch) ==
    IF enableSearch THEN Some(<<XSearchTool(None, None)>>) ELSE Some(<< >>)

\* const tools = enableSearch ? [{ type: 'x_search' }] : undefined
GeneralChatTools(enableSearch) ==
    IF enableSearch THEN Some(<<XSearchTool(None, None)>>) ELSE None

generalChat(prompt, options) ==
    LET enableSearch == OrDefault(options.enableSearch, FALSE)
        temperature == OrDefault(options.temperature, 7)
    IN [model |-> None, input |-> UserInput(<<prompt>>),
        tools |-> GeneralChatTools(enableSearch),
        temperature |-> Some(temperature), max_tokens |-> None]

\* Inputs of the builders
Instants ==
    {day * DaySeconds + s :
        day \in {11017, 19782, 19783, 19787, 20148, 20454, 20457, 20762},
        s \in {0, 43200, 86399}}
TimeWindowArgs ==
    {None} \cup {Some(w) : w \in {"15min", "1hr", "4hr", "24hr", "7d", "30d", "", "1h"}}
LimitArgs == {None, Some(10), Some(50)}
AnalysisTypeArgs == {None, Some("sentiment"), Some("themes"), Some("both")}
AspectsArgs == {<< >>, <<"sentiment", "volume">>}
CategoryArgs == {None, Some(""), Some("technology")}
EnableSearchArgs == {None, Some(FALSE), Some(TRUE)}
TemperatureArgs == {None, Some(0), Some(5)}

NoCall ==
    [op |-> "none", text |-> "", timeWindow |-> None, limit |-> None,
     analysisType |-> None, aspects |-> << >>, category |-> None,
     enableSearch |-> None, temperature |-> None]

SearchPosts ==
    /\ reqCall = NoCall
    /\ \E now \in Instants, tw \in TimeWindowArgs, lim \in LimitArgs,
          at \in AnalysisTypeArgs :
          /\ reqNow' = now
          /\ reqCall' = [NoCall EXCEPT !.op = "searchPosts", !.text = "electric vehicles",
                                       !.timeWindow = tw, !.limit = lim,
                                       !.analysisType = at]
          /\ requestBody' = Some(BuildRequestBody(
                searchPosts("electric vehicles",
                            [timeWindow |-> tw, limit |-> lim, analysisType |-> at], now),
                ConfigModel))
    /\ UNCHANGED notReqVars

AnalyzeTopic ==
    /\ reqCall = NoCall
    /\ \E now \in Instants, tw \in TimeWindowArgs, lim \in LimitArgs,
          aspects \in AspectsArgs :
          /\ reqNow' = now
          /\ reqCall' = [NoCall EXCEPT !.op = "analyzeTopic", !.text = "cryptocurrency",
                                       !.timeWindow = tw, !.limit = lim,
                                       !.aspects = aspects]
          /\ requestBody' = Some(BuildRequestBody(
                analyzeTopic("cryptocurrency", aspects,
                             [limit |-> lim, timeWindow |-> tw], now),
                ConfigModel))
    /\ UNCHANGED notReqVars

GetTrends ==
    /\ reqCall = NoCall
    /\ \E now \in Instants, cat \in CategoryArgs, lim \in LimitArgs :
          /\ reqNow' = now
          /\ reqCall' = [NoCall EXCEPT !.op = "getTrends", !.category = cat,
                                       !.limit = lim]
          /\ requestBody' = Some(BuildRequestBody(
                getTrends([category |-> cat, limit |-> lim], now), ConfigModel))
    /\ UNCHANGED notReqVars

GeneralChat ==
    /\ reqCall = NoCall
    /\ \E now \in Instants, es \in EnableSearchArgs, lim \in LimitArgs,
          temp \in TemperatureArgs :
          /\ reqNow' = now
          /\ reqCall' = [NoCall EXCEPT !.op = "generalChat", !.text = "Say hello",
                                       !.enableSearch = es, !.limit = lim,
                                       !.temperature = temp]
          /\ requestBody' = Some(BuildRequestBody(
                generalChat("Say hello",
                            [enableSearch |-> es, searchLimit |-> lim,
                             temperature |-> temp]),
                ConfigModel))
    /\ UNCHANGED notReqVars

InitReq ==
    /\ reqNow = 0
    /\ reqCall = NoCall
    /\ requestBody = None

\* ------------------------------------------------------------------------
\* Several chat() invocations in flight on one client
\* ------------------------------------------------------------------------
Invocations == {1, 2}

\* what the upstream answers to the POSTs of concurrent invocations
ConcOutcomes ==
    { HttpError(500, Some("e1")),
      HttpError(400, Some("e1")),
      AxiosNoResponse(<<"connect ECONNREFUSED">>),
      OtherRejection(<<"Network error">>, TRUE),
      Reply(GoodPayload),
      Reply([GoodPayload EXCEPT !.id = None]) }

\* readings of Date.now() while they run
ConcNowValues == {1000}

\* the locals of an invocation that has not been called yet
FreshInvocation ==
    [pc |-> "idle", attempt |-> 0, calls |-> 0, delays |-> << >>, outs |-> << >>,
     result |-> None, err |-> None]

\* the loop variable read by every invocation, were it a field of the client
AttemptOf_Shared(st, i) == st[1].attempt

\* `let attempt` of the for loop: a local of invocation i
AttemptOf(st, i) == st[i].attempt

\* invocation i calls chat(request) and runs up to its first axios.post
ConcChatStart(i) ==
    /\ clientState = "ready"
    /\ inflight[i].pc = "idle"
    /\ inflight' = [inflight EXCEPT ![i] =
          IF LoopContinues(0)
          THEN [@ EXCEPT !.attempt = 0, !.pc = "awaitPost", !.calls = @ + 1]
          ELSE [@ EXCEPT !.attempt = 0, !.pc = "thrown",
                         !.err = Some(GrokApiError(
                                    <<"Grok API request failed after max retries">>,
                                    0, None))]]
    /\ UNCHANGED notConcVars

\* the POST of invocation i settles; i runs up to its next suspension
ConcPostSettles(i) ==
    /\ inflight[i].pc = "awaitPost"
    /\ \E o \in ConcOutcomes, now \in ConcNowValues :
          LET thrown == TryBlockThrows(o, now)
              seen == Append(inflight[i].outs, [o |-> o, now |-> now])
          IN inflight' = [inflight EXCEPT ![i] =
                IF thrown = None
                THEN [@ EXCEPT !.outs = seen, !.pc = "returned",
                               !.result = Some(normalizeResponse(Get(o.payload), now))]
                ELSE LET c == CatchClause(Get(thrown), AttemptOf(inflight, i))
                     IN IF c.retry
                        THEN [@ EXCEPT !.outs = seen, !.pc = "sleeping",
                                       !.delays = Append(@, c.delay)]
                        ELSE [@ EXCEPT !.outs = seen, !.pc = "thrown",
                                       !.err = c.error]]
    /\ UNCHANGED notConcVars

\* the timer of invocation i's sleep(delay) fires; i issues its next POST
ConcSleepElapses(i) ==
    /\ inflight[i].pc = "sleeping"
    /\ inflight' = [inflight EXCEPT ![i] =
          IF LoopContinues(AttemptOf(inflight, i) + 1)
          THEN [@ EXCEPT !.attempt = AttemptOf(inflight, i) + 1,
                         !.pc = "awaitPost", !.calls = @ + 1]
          ELSE [@ EXCEPT !.attempt = AttemptOf(inflight, i) + 1, !.pc = "thrown",
                         !.err = Some(GrokApiError(
                                    <<"Grok API request failed after max retries">>,
                                    0, None))]]
    /\ UNCHANGED notConcVars

InitConc == inflight = [i \in Invocations |-> FreshInvocation]

\* ------------------------------------------------------------------------
\* grokApi: the lazily constructed shared client
\* ------------------------------------------------------------------------
\* properties read on grokApi
GrokApiProps == {"searchPosts", "analyzeTopic", "getTrends", "generalChat", "chat",
                 "apiKey"}

\* values of config.GROK_API_KEY the process may start with
EnvKeys == {None, Some(<< >>), Some(<<" ">>), Some(<<"c">>), Some(<<"c", "d">>)}

\* a proxy that builds a client on every read
NeedsConstruction_Always(inst) == TRUE

\* if (!_grokApiInstance)
NeedsConstruction(inst) == inst = None

\* new GrokApiClient() as the proxy calls it: no arguments, the n-th object made
NewDefaultClient(key, n) ==
    IF ApiKeyRejected(ResolveApiKey(None, key))
    THEN None
    ELSE Some([id |-> n, apiKey |-> ResolveApiKey(None, key),
               baseUrl |-> GROK_API_BASE_URL, defaultModel |-> ConfigModel])

\* the get trap of the proxy, reading `prop`
ProxyGet(prop) ==
    /\ IF NeedsConstruction(grokApiInstance)
       THEN LET made == NewDefaultClient(envKey, ctorCalls + 1)
            IN /\ ctorCalls' = ctorCalls + 1
               /\ grokApiInstance' = made
               /\ accesses' = Append(accesses,
                     [prop |-> prop, threw |-> made = None,
                      served |-> IF made = None THEN 0 ELSE Get(made).id,
                      ctorCalls |-> ctorCalls + 1])
       ELSE /\ UNCHANGED <<ctorCalls, grokApiInstance>>
            /\ accesses' = Append(accesses,
                  [prop |-> prop, threw |-> FALSE,
                   served |-> Get(grokApiInstance).id, ctorCalls |-> ctorCalls])
    /\ UNCHANGED envKey

\* whether that read throws: the constructor it has to run rejects the key
ProxyGetThrows ==
    NeedsConstruction(grokApiInstance) /\ NewDefaultClient(envKey, ctorCalls + 1) = None

\* some code reads a property of grokApi
GrokApiGet ==
    /\ Len(accesses) < MaxAccesses
    /\ \E prop \in GrokApiProps : ProxyGet(prop)
    /\ UNCHANGED notLazyVars

InitLazy ==
    /\ grokApiInstance = None
    /\ ctorCalls = 0
    /\ accesses = << >>

\* ------------------------------------------------------------------------
\* MCP server: the CallToolRequestSchema handler
\* ------------------------------------------------------------------------
\* JSON values of tool arguments; numbers in tenths
JNum(n) == [t |-> "number", n |-> n, s |-> "", b |-> FALSE, items |-> << >>]
JStr(x) == [t |-> "string", n |-> 0, s |-> x, b |-> FALSE, items |-> << >>]
JBool(x) == [t |-> "boolean", n |-> 0, s |-> "", b |-> x, items |-> << >>]
JNull == [t |-> "null", n |-> 0, s |-> "", b |-> FALSE, items |-> << >>]
\* an array, by the types of its items
JArr(ts) == [t |-> "array", n |-> 0, s |-> "", b |-> FALSE, items |-> ts]

\* z.string()
zString(v) == v # None /\ Get(v).t = "string"
\* z.string().optional()
zOptionalString(v) == v = None \/ Get(v).t = "string"
\* z.enum([...]).optional()
zOptionalEnum(v, values) == v = None \/ (Get(v).t = "string" /\ Get(v).s \in values)
\* a number check that forgets the upper limit
zOptionalNumber_NoMax(v, lo, hi) ==
    v = None \/ (Get(v).t = "number" /\ lo <= Get(v).n)

\* z.number().min(lo).max(hi).optional()
zOptionalNumber(v, lo, hi) ==
    v = None \/ (Get(v).t = "number" /\ lo <= Get(v).n /\ Get(v).n <= hi)
\* z.boolean().optional()
zOptionalBoolean(v) == v = None \/ Get(v).t = "boolean"
\* z.array(z.string())
zStringArray(v) ==
    /\ v # None
    /\ Get(v).t = "array"
    /\ \A k \in 1..Len(Get(v).items) : Get(v).items[k] = "string"

\* SearchPostsParams.parse(args) does not throw
SearchPostsParams(args) ==
    /\ args # None
    /\ zString(Get(args).query)
    /\ zOptionalEnum(Get(args).timeWindow, {"15min", "1hr", "4hr", "24hr", "7d"})
    /\ zOptionalNumber(Get(args).limit, 10, 500)
    /\ zOptionalEnum(Get(args).analysisType, {"sentiment", "themes", "both"})

\* AnalyzeTopicParams.parse(args) does not throw
AnalyzeTopicParams(args) ==
    /\ args # None
    /\ zString(Get(args).topic)
    /\ zStringArray(Get(args).aspects)
    /\ zOptionalString(Get(args).timeWindow)
    /\ zOptionalNumber(Get(args).limit, 10, 500)

\* GetTrendsParams.parse(args) does not throw
GetTrendsParams(args) ==
    /\ args # None
    /\ zOptionalString(Get(args).category)
    /\ zOptionalNumber(Get(args).limit, 10, 500)

\* ChatParams.parse(args) does not throw
ChatParams(args) ==
    /\ args # None
    /\ zString(Get(args).prompt)
    /\ zOptionalBoolean(Get(args).enableSearch)
    /\ zOptionalNumber(Get(args).searchLimit, 10, 500)
    /\ zOptionalNumber(Get(args).temperature, 0, 10)

ToolNames == {"grok_search_posts", "grok_analyze_topic", "grok_get_trends", "grok_chat"}

\* the parse of the case that `name` selects
ParamsParse(name, args) ==
    CASE name = "grok_search_posts" -> SearchPostsParams(args)
      [] name = "grok_analyze_topic" -> AnalyzeTopicParams(args)
      [] name = "grok_get_trends" -> GetTrendsParams(args)
      [] name = "grok_chat" -> ChatParams(args)

\* the client method that case calls
ClientMethod(name) ==
    CASE name = "grok_search_posts" -> "searchPosts"
      [] name = "grok_analyze_topic" -> "analyzeTopic"
      [] name = "grok_get_trends" -> "getTrends"
      [] name = "grok_chat" -> "generalChat"

\* the key its result reports the text under
ResultKey(name) ==
    CASE name = "grok_search_posts" -> "analysis"
      [] name = "grok_analyze_topic" -> "analysis"
      [] name = "grok_get_trends" -> "trends"
      [] name = "grok_chat" -> "response"

\* error.errors of a ZodError
ZodError(issues) ==
    [name |-> "ZodError", message |-> issues, status |-> 0, response |-> None]

\* the object handed to JSON.stringify; None is a key that is left out
ErrorPayload(error, status, details, issues) ==
    [error |-> Some(error), status |-> status, details |-> details, issues |-> issues,
     key |-> "", text |-> << >>, citations |-> << >>, model |-> None, usage |-> None,
     searchEnabled |-> None]

SuccessPayload(name, response, args) ==
    [error |-> None, status |-> None, details |-> None, issues |-> None,
     key |-> ResultKey(name),
     text |-> response.choices[1].message.content,
     citations |-> IF response.citations = None THEN << >> ELSE Get(response.citations),
     model |-> response.model, usage |-> response.usage,
     searchEnabled |-> IF name = "grok_chat"
                       THEN Some(IF Get(args).enableSearch = None THEN FALSE
                                 ELSE Get(Get(args).enableSearch).b)
                       ELSE None]

\* { content: [{ type: 'text', text }], isError? }
ToolResult(payload, isError) ==
    [escaped |-> FALSE, isError |-> isError, text |-> JSONstringify(payload)]

\* a handler whose promise rejects with the error
Rejected(error) ==
    [escaped |-> TRUE, isError |-> None,
     text |-> JSONstringify(ErrorPayload(error.message, None, None, None))]

\* a last branch that throws the error on
CatchOther_Rethrow(error) == Rejected(error)

\* the last branch of the catch: neither a GrokApiError nor a ZodError
CatchOther(error) ==
    ToolResult(ErrorPayload(IF error.name = "Error" THEN error.message
                            ELSE <<"Unknown error">>,
                            None, None, None),
               Some(TRUE))

\* catch (error) { ... }
HandlerCatch(error) ==
    IF error.name = "GrokApiError"
    THEN ToolResult(ErrorPayload(error.message, Some(error.status), error.response, None),
                    Some(TRUE))
    ELSE IF error.name = "ZodError"
    THEN ToolResult(ErrorPayload(<<"Invalid parameters">>, None, None,
                                 Some(error.message)),
                    Some(TRUE))
    ELSE CatchOther(error)

\* tool calls the server receives
RequestNames == ToolNames \cup {"grok_unknown"}

NoArgs ==
    [query |-> None, topic |-> None, aspects |-> None, prompt |-> None,
     timeWindow |-> None, limit |-> None, analysisType |-> None, category |-> None,
     enableSearch |-> None, searchLimit |-> None, temperature |-> None]

BaseArgs ==
    [NoArgs EXCEPT !.query = Some(JStr("q")), !.topic = Some(JStr("t")),
                   !.aspects = Some(JArr(<<"string">>)), !.prompt = Some(JStr("p"))]

McpArgs ==
    {None, Some(NoArgs), Some(BaseArgs)}
    \cup {Some([BaseArgs EXCEPT !.limit = Some(v)]) :
            v \in {JNum(0), JNum(10), JNum(500), JNum(510), JStr("10"), JNull}}
    \cup {Some([BaseArgs EXCEPT !.searchLimit = Some(v)]) : v \in {JNum(0), JNum(250)}}
    \cup {Some([BaseArgs EXCEPT !.temperature = Some(v)]) :
            v \in {JNum(-1), JNum(0), JNum(10), JNum(11)}}
    \cup {Some([BaseArgs EXCEPT !.timeWindow = Some(v)]) : v \in {JStr("7d"), JStr("30d")}}
    \cup {Some([BaseArgs EXCEPT !.analysisType = Some(v)]) :
            v \in {JStr("themes"), JStr("bogus")}}
    \cup {Some([BaseArgs EXCEPT !.enableSearch = Some(v)]) :
            v \in {JBool(TRUE), JStr("yes")}}
    \cup {Some([BaseArgs EXCEPT !.category = Some(v)]) : v \in {JStr("tech"), JNum(10)}}
    \cup {Some([BaseArgs EXCEPT !.aspects = Some(v)]) :
            v \in {JArr(<< >>), JArr(<<"string", "number">>)}}
    \cup {Some([BaseArgs EXCEPT !.query = None]), Some([BaseArgs EXCEPT !.prompt = None]),
          Some([BaseArgs EXCEPT !.topic = Some(JNum(10))])}

\* how the awaited client method settles: a ChatResponse, or the GrokApiError
\* chat() throws
McpClientOutcomes ==
    {[threw |-> FALSE, error |-> None, response |-> Some(normalizeResponse(p, 1000))] :
        p \in {GoodPayload,
               AgentResponse(<<[type |-> "message", content |-> StringContent(<< >>)]>>,
                             Num(5), None),
               AgentResponse(<<[type |-> "message",
                                content |-> ArrayContent(<<
                                   [type |-> "output_text", text |-> Some(<<"a">>),
                                    annotations |-> Some(<<[type |-> "url_citation",
                                                            url |-> Some("u1")]>>)]>>)]>>,
                             Undefined,
                             Some([input_tokens |-> Some(3), output_tokens |-> Some(4),
                                   total_tokens |-> Some(7)]))}}
    \cup {[threw |-> TRUE, error |-> CatchClause(o, 2).error, response |-> None] :
            o \in {HttpError(400, Some("e1")), HttpError(500, None), HttpError(429, Some("")),
                   AxiosNoResponse(<<"connect ECONNREFUSED">>),
                   OtherRejection(<<"Network error">>, TRUE)}}

\* the handler runs up to its first await, or to its return
McpCallTool ==
    /\ mcpPc = "idle"
    /\ \E name \in RequestNames, args \in McpArgs :
          /\ mcpRequest' = [name |-> name, args |-> args]
          /\ IF name \notin ToolNames
             THEN LET e == PlainError(<<"Unknown tool: ", name>>)
                  IN /\ mcpThrown' = Some(e)
                     /\ mcpResult' = Some(HandlerCatch(e))
                     /\ mcpPc' = "done"
                     /\ UNCHANGED <<mcpClientCalls, lazyVars>>
             ELSE IF ~ParamsParse(name, args)
             THEN LET e == ZodError(<<"ZodError">>)
                  IN /\ mcpThrown' = Some(e)
                     /\ mcpResult' = Some(HandlerCatch(e))
                     /\ mcpPc' = "done"
                     /\ UNCHANGED <<mcpClientCalls, lazyVars>>
             ELSE /\ ProxyGet(ClientMethod(name))
                  /\ IF ProxyGetThrows
                     THEN LET e == ConfigError
                          IN /\ mcpThrown' = Some(e)
                             /\ mcpResult' = Some(HandlerCatch(e))
                             /\ mcpPc' = "done"
                             /\ UNCHANGED mcpClientCalls
                     ELSE /\ mcpPc' = "awaitClient"
                          /\ mcpClientCalls' = mcpClientCalls + 1
                          /\ UNCHANGED <<mcpThrown, mcpResult>>
    /\ UNCHANGED notMcpVars

\* the awaited client method settles and the handler returns
McpClientSettles ==
    /\ mcpPc = "awaitClient"
    /\ \E out \in McpClientOutcomes :
          IF out.threw
          THEN /\ mcpThrown' = out.error
               /\ mcpResult' = Some(HandlerCatch(Get(out.error)))
          ELSE /\ mcpThrown' = None
               /\ mcpResult' = Some(ToolResult(
                     SuccessPayload(mcpRequest.name, Get(out.response), mcpRequest.args),
                     None))
    /\ mcpPc' = "done"
    /\ UNCHANGED <<mcpRequest, mcpClientCalls>>
    /\ UNCHANGED lazyVars
    /\ UNCHANGED notMcpVars

InitMcp ==
    /\ mcpPc = "idle"
    /\ mcpRequest = [name |-> "", args |-> None]
    /\ mcpThrown = None
    /\ mcpResult = None
    /\ mcpClientCalls = 0

\* ------------------------------------------------------------------------
\* The legacy chat-completions client, run against the same upstream script
\* ------------------------------------------------------------------------
LEGACY_MAX_RETRIES == 3

\* a legacy list without 429
LEGACY_RETRYABLE_STATUS_CODES_No429 == {500, 502, 503, 504}

LEGACY_RETRYABLE_STATUS_CODES == {429, 500, 502, 503, 504}

\* for (let attempt = 0; attempt < MAX_RETRIES; attempt++)
LegacyLoopContinues(a) == a < LEGACY_MAX_RETRIES

\* the legacy try block: `return response.data`, nothing is validated
LegacyTryBlockThrows(o) == IF o.kind # "ok" THEN Some(o) ELSE None

\* the legacy catch clause
LegacyCatchClause(e, a) ==
    IF isAxiosError(e)
    THEN LET status == IF e.hasResponse /\ e.status # 0 THEN e.status ELSE 0
         IN IF status \in LEGACY_RETRYABLE_STATUS_CODES /\ a < LEGACY_MAX_RETRIES - 1
            THEN [retry |-> TRUE, delay |-> (a + 1) * 2000, error |-> None]
            ELSE [retry |-> FALSE, delay |-> 0,
                  error |-> Some(GrokApiError(
                               <<"Grok API request failed: ">>
                                  \o (IF e.hasResponse /\ IsTruthyBody(e.data)
                                      THEN JSONstringify(Get(e.data)) ELSE e.message),
                               status,
                               IF e.hasResponse THEN e.data ELSE None))]
    ELSE IF a < LEGACY_MAX_RETRIES - 1
         THEN [retry |-> TRUE, delay |-> (a + 1) * 2000, error |-> None]
         ELSE [retry |-> FALSE, delay |-> 0,
               error |-> Some(GrokApiError(
                            <<"Grok API request failed: ">>
                               \o (IF e.isError THEN e.message ELSE <<"Unknown error">>),
                            0, None))]

LegacyMaxRetriesError ==
    GrokApiError(<<"Grok API request failed after max retries">>, 0, None)

FreshLegacy ==
    [pc |-> "idle", attempt |-> 0, calls |-> 0, delays |-> << >>, result |-> None,
     err |-> None]

\* the answers the upstream is scripted to give to successive POSTs
FeedOutcomes ==
    { HttpError(429, Some("e1")), HttpError(500, Some("e1")), HttpError(400, Some("e1")),
      AxiosNoResponse(<<"connect ECONNREFUSED">>),
      OtherRejection(<<"Network error">>, TRUE),
      Reply(GoodPayload),
      Reply([GoodPayload EXCEPT !.id = None]) }
FeedLength == 3
Feeds == [1..FeedLength -> FeedOutcomes]

\* mockedPost.mockRejectedValueOnce(...).mockResolvedValueOnce(...): the script is set
ScriptUpstream ==
    /\ feed = << >>
    /\ feed' \in Feeds
    /\ UNCHANGED legacy
    /\ UNCHANGED notPairVars

\* the current client's chat() is called
FedChatStart == feed # << >> /\ ChatStart

\* its POST settles with the scripted answer
FedPostSettles == PostSettles /\ last' = feed[calls]

\* the legacy chat() is called and issues its first POST
LegacyChatStart ==
    /\ feed # << >>
    /\ legacy.pc = "idle"
    /\ legacy' = IF LegacyLoopContinues(0)
                 THEN [legacy EXCEPT !.attempt = 0, !.pc = "awaitPost", !.calls = @ + 1]
                 ELSE [legacy EXCEPT !.attempt = 0, !.pc = "thrown",
                                     !.err = Some(LegacyMaxRetriesError)]
    /\ UNCHANGED feed
    /\ UNCHANGED notPairVars

\* its POST settles with the scripted answer
LegacyPostSettles ==
    /\ legacy.pc = "awaitPost"
    /\ LET o == feed[legacy.calls]
           thrown == LegacyTryBlockThrows(o)
       IN legacy' =
            IF thrown = None
            THEN [legacy EXCEPT !.pc = "returned", !.result = o.payload]
            ELSE LET c == LegacyCatchClause(Get(thrown), legacy.attempt)
                 IN IF c.retry
                    THEN [legacy EXCEPT !.pc = "sleeping", !.delays = Append(@, c.delay)]
                    ELSE [legacy EXCEPT !.pc = "thrown", !.err = c.error]
    /\ UNCHANGED feed
    /\ UNCHANGED notPairVars

\* its timer fires and it issues the next POST
LegacySleepElapses ==
    /\ legacy.pc = "sleeping"
    /\ legacy' = IF LegacyLoopContinues(legacy.attempt + 1)
                 THEN [legacy EXCEPT !.attempt = @ + 1, !.pc = "awaitPost",
                                     !.calls = @ + 1]
                 ELSE [legacy EXCEPT !.attempt = @ + 1, !.pc = "thrown",
                                     !.err = Some(LegacyMaxRetriesError)]
    /\ UNCHANGED feed
    /\ UNCHANGED notPairVars

InitPair ==
    /\ feed = << >>
    /\ legacy = FreshLegacy

\* everything but the environment the process starts in
InitModules == InitReq /\ InitConc /\ InitLazy /\ InitMcp /\ InitPair

InitExt == InitModules /\ envKey = Some(<<"c">>)

NoOutcome == OtherRejection(<< >>, FALSE)

\* requests chat() is called with: no model, an empty model name, a model
DefaultRequest == generalChat("Say hello", [enableSearch |-> None, searchLimit |-> None,
                                            temperature |-> None])
ChatRequests ==
    {[DefaultRequest EXCEPT !.model = m] : m \in {None, Some(""), Some("grok-custom")}}
    \cup {[DefaultRequest EXCEPT !.tools = Some(<<XSearchTool(None, None)>>),
                                 !.max_tokens = Some(100)]}

InitClientChat ==
    /\ request = DefaultRequest
    /\ clientState = "none"
    /\ ctorArgs = [apiKey |-> None, configKey |-> None]
    /\ client = [apiKey |-> << >>, baseUrl |-> "", defaultModel |-> ""]
    /\ ctorError = None
    /\ pc = "idle"
    /\ attempt = 0
    /\ calls = 0
    /\ delays = << >>
    /\ hist = << >>
    /\ last = NoOutcome
    /\ result = None
    /\ err = None
    /\ warnings = 0
    /\ body = None
    /\ sent = << >>

Init ==
    /\ InitClientChat
    /\ agentResponse = GoodPayload
    /\ normalized = None
    /\ InitExt

Next == Construct \/ ChatStart \/ PostSettles \/ SleepElapses

Spec == Init /\ [][Next]_vars

\* every POST eventually settles and every timer eventually fires
FairSpec == Spec /\ WF_vars(PostSettles) /\ WF_vars(SleepElapses)

InitNorm ==
    /\ InitClientChat
    /\ agentResponse \in NormInputs
    /\ normalized = None
    /\ InitExt

NextNorm == Normalize

SpecNorm == InitNorm /\ [][NextNorm]_vars

NextReq == SearchPosts \/ AnalyzeTopic \/ GetTrends \/ GeneralChat

SpecReq == Init /\ [][NextReq]_vars

\* a constructed client, and the request chat() will be called with
InitReadyWith(requests) ==
    /\ request \in requests
    /\ clientState = "ready"
    /\ \E baseUrlArg \in BaseUrlArgs :
          /\ ctorArgs = [apiKey |-> Some(<<"k">>), configKey |-> None]
          /\ client = [apiKey |-> ResolveApiKey(Some(<<"k">>), None),
                       baseUrl |-> IF baseUrlArg # None THEN Get(baseUrlArg)
                                   ELSE GROK_API_BASE_URL,
                       defaultModel |-> ConfigModel]
    /\ ctorError = None
    /\ pc = "idle"
    /\ attempt = 0
    /\ calls = 0
    /\ delays = << >>
    /\ hist = << >>
    /\ last = NoOutcome
    /\ result = None
    /\ err = None
    /\ warnings = 0
    /\ body = None
    /\ sent = << >>
    /\ agentResponse = GoodPayload
    /\ normalized = None
    /\ InitExt

\* a constructed client on which the concurrent invocations run
InitReady == InitReadyWith({DefaultRequest})

\* one invocation of chat() with any of the requests
InitSend == InitReadyWith(ChatRequests)

NextSend == ChatStart \/ PostSettles \/ SleepElapses

SpecSend == InitSend /\ [][NextSend]_vars

NextPair ==
    \/ ScriptUpstream
    \/ FedChatStart
    \/ FedPostSettles
    \/ SleepElapses
    \/ LegacyChatStart
    \/ LegacyPostSettles
    \/ LegacySleepElapses

\* both clients, constructed, run one chat() each against the same script
SpecPair == InitReady /\ [][NextPair]_vars

ConcChatStartAny == \E i \in Invocations : ConcChatStart(i)
ConcPostSettlesAny == \E i \in Invocations : ConcPostSettles(i)
ConcSleepElapsesAny == \E i \in Invocations : ConcSleepElapses(i)

NextConc == ConcChatStartAny \/ ConcPostSettlesAny \/ ConcSleepElapsesAny

SpecConc == InitReady /\ [][NextConc]_vars

\* the process starts with any of the keys; nothing has touched grokApi yet
InitAnyEnv ==
    /\ InitClientChat
    /\ agentResponse = GoodPayload
    /\ normalized = None
    /\ InitModules
    /\ envKey \in EnvKeys

NextLazy == GrokApiGet

SpecLazy == InitAnyEnv /\ [][NextLazy]_vars

NextMcp == McpCallTool \/ McpClientSettles

SpecMcp == InitAnyEnv /\ [][NextMcp]_vars





\* ========================================================================
\* Properties
\* ========================================================================
IsHttpError(o) == o.kind = "axios" /\ o.hasResponse
IsRetryableHttp(o) == IsHttpError(o) /\ o.status \in {429, 500, 502, 503, 504}
IsNoResponseFailure(o) == o.kind \in {"axios", "other"} /\ ~o.hasResponse
Settled == Len(hist) >= 1
AllRetryableSoFar == \A i \in 1..Len(hist) : hist[i] \in {429, 500, 502, 503, 504}

\* s occurs in t as a contiguous piece
Contains(t, s) ==
    \E i \in 1..(Len(t) + 1) :
        i + Len(s) - 1 <= Len(t) /\ SubSeq(t, i, i + Len(s) - 1) = s

\* C1: one chat() invocation makes at most 3 upstream POST calls; three
\* consecutive retryable failures give exactly 3 calls and then a GrokApiError.
C1_AtMostThreeCalls ==
    /\ calls <= 3
    /\ (Len(hist) = 3 /\ AllRetryableSoFar) =>
          /\ calls = 3
          /\ pc = "thrown"
          /\ err # None
          /\ Get(err).name = "GrokApiError"

C1_Witness == hist = <<500, 500, 500>> /\ pc = "thrown" /\ calls = 3

\* C2: an attempt failing with 429/500/502/503/504 while fewer than 3 attempts
\* have been made is followed by a wait and then another upstream call; a call
\* that returns returns the normalization of the last reply, and 502, 503,
\* success is 3 calls and a success.
C2_RetryableStatusRetried ==
    /\ [][(pc = "awaitPost" /\ pc' # "awaitPost" /\ IsRetryableHttp(last')
             /\ Len(hist') < 3) => pc' = "sleeping"]_vars
    /\ [][pc = "sleeping" => (pc' = "awaitPost" /\ calls' = calls + 1)]_vars
    /\ [](pc = "returned" =>
            /\ last.kind = "ok"
            /\ calls = Len(hist)
            /\ \E now \in NowValues :
                  result = Some(normalizeResponse(Get(last.payload), now)))
    /\ []((hist = <<502, 503, 200>> /\ pc = "returned") => calls = 3)
    /\ (pc = "sleeping") ~> (pc = "awaitPost")

C2_Witness == hist = <<502, 503, 200>> /\ pc = "returned" /\ calls = 3

\* C3: an attempt that fails without any HTTP response (connection failure or
\* timeout), however it is reported, is retried when fewer than 3 attempts
\* have been made: the client waits and posts again.
C3_NoResponseRetried ==
    (Settled /\ Len(hist) < 3 /\ IsNoResponseFailure(last)) =>
        pc \in {"sleeping", "awaitPost"}

\* C4: an HTTP error status outside the retryable set ends the call at once:
\* no wait and no further call follow, the GrokApiError carries that status,
\* and as first outcome it leaves exactly 1 call.
C4_NonRetryableStatusFailsAtOnce ==
    (Settled /\ IsHttpError(last) /\ last.status \notin {429, 500, 502, 503, 504}) =>
        /\ pc = "thrown"
        /\ err # None
        /\ Get(err).name = "GrokApiError"
        /\ Get(err).status = last.status
        /\ calls = Len(hist)
        /\ Len(delays) = Len(hist) - 1
        /\ (Len(hist) = 1 => calls = 1)

C4_Witness ==
    hist = <<500, 401>> /\ pc = "thrown" /\ calls = 2 /\ delays = <<2000>>

\* C5: when the third attempt fails, the GrokApiError is built from that
\* failure only: an HTTP error gives its status and payload, a failure without
\* response gives status 0 and a message containing that failure's message, and
\* status 0 is never reported for an HTTP error response.
C5_ErrorFromLastFailure ==
    (Len(hist) = 3 /\ pc = "thrown") =>
        /\ err # None
        /\ IsHttpError(last) =>
              Get(err).status = last.status /\ Get(err).response = last.data
        /\ (IsNoResponseFailure(last) /\ last.isError) =>
              Get(err).status = 0 /\ Contains(Get(err).message, last.message)
        /\ Get(err).status = 0 => ~IsHttpError(last)

C5_Witness ==
    /\ hist = <<500, 502, 503>>
    /\ pc = "thrown"
    /\ Get(err).status = 503
    /\ Get(err).response = Some("e1")

\* C6: for consecutive retryable failures the delays are 2000, 4000, 6000 in
\* that order, one after each of attempts 1, 2 and 3.
C6_DelayAfterEachAttempt ==
    (AllRetryableSoFar /\ pc # "awaitPost") =>
        /\ Len(delays) = Len(hist)
        /\ \A i \in 1..Len(delays) : delays[i] = i * 2000

\* C7: every failure of chat() reaches the caller as a GrokApiError with a
\* message and an integer status; no other error type escapes and a call
\* returns only when its last attempt produced a valid normalized response.
C7_OnlyGrokApiErrorEscapes ==
    /\ pc = "thrown" =>
          /\ err # None
          /\ result = None
          /\ Get(err).name = "GrokApiError"
          /\ Get(err).status \in Int
          /\ Get(err).message # << >>
    /\ pc = "returned" =>
          /\ err = None
          /\ result # None
          /\ last.kind = "ok"
          /\ ~normalizeThrows(Get(last.payload))
          /\ GrokChatResponseSchema(Get(result))
    /\ pc # "thrown" => err = None

C7_Witness ==
    /\ pc = "thrown"
    /\ Len(hist) = 3
    /\ last = OtherRejection(<<"Network error">>, TRUE)
    /\ Get(err).name = "GrokApiError"

\* a reply whose normalization exists and fails the ChatResponse schema
FailsChatResponseSchema(o) ==
    /\ o.kind = "ok"
    /\ ~normalizeThrows(Get(o.payload))
    /\ \A now \in NowValues :
          ~GrokChatResponseSchema(normalizeResponse(Get(o.payload), now))

\* C8: a successful reply whose normalized response fails ChatResponse
\* validation fails the call at that attempt with a GrokApiError of status 0;
\* no wait and no further upstream call follow.
C8_ValidationFailureIsTerminal ==
    (Settled /\ FailsChatResponseSchema(last)) =>
        /\ pc = "thrown"
        /\ err # None
        /\ Get(err).status = 0
        /\ calls = Len(hist)

\* C9: construction fails exactly when the API key in effect (the argument,
\* or the configured key when no argument is given) is missing, empty or all
\* whitespace; a failed construction leaves no client and makes no call.
KeyInEffect == IF ctorArgs.apiKey # None THEN ctorArgs.apiKey ELSE ctorArgs.configKey
IsBlankKey(k) == k = None \/ \A i \in 1..Len(Get(k)) : IsWhitespace(Get(k)[i])

C9_BlankKeyRejectedAtConstruction ==
    /\ clientState # "none" => (clientState = "failed" <=> IsBlankKey(KeyInEffect))
    /\ clientState = "failed" =>
          /\ ctorError # None
          /\ calls = 0
          /\ pc = "idle"
          /\ client.apiKey = << >>
    /\ clientState = "ready" => client.apiKey = Get(KeyInEffect)
    /\ calls > 0 => clientState = "ready"

C9_Witness ==
    /\ clientState = "failed"
    /\ ctorArgs.apiKey = Some(<<" ", " ">>)
    /\ ctorArgs.configKey = Some(<<"c">>)

\* C10: the normalized content is the concatenation, in output order and block
\* order, of the text of the output_text blocks and the bare-string content of
\* the message items; other items contribute no text and no citations.
RECURSIVE Flatten(_)
Flatten(ss) == IF ss = << >> THEN << >> ELSE Head(ss) \o Flatten(Tail(ss))

BlockText(b) == IF b.type = "output_text" /\ b.text # None THEN Get(b.text) ELSE << >>

MessageText(item) ==
    IF item.type # "message" THEN << >>
    ELSE IF item.content.kind = "string" THEN item.content.str
    ELSE IF item.content.kind = "array"
         THEN Flatten([j \in 1..Len(item.content.blocks) |->
                          BlockText(item.content.blocks[j])])
         ELSE << >>

ExpectedContent(out) == Flatten([i \in 1..Len(out) |-> MessageText(out[i])])

IsMessage(item) == item.type = "message"

C10_ContentIsConcatenation ==
    normalized # None =>
        LET out == Get(agentResponse.output)
            n == Get(normalized)
            messagesOnly == normalizeResponse(
                               [agentResponse EXCEPT !.output = Some(SelectSeq(out, IsMessage))],
                               n.created.v)
        IN /\ Len(n.choices) = 1
           /\ n.choices[1].message.content = ExpectedContent(out)
           /\ n.choices = messagesOnly.choices
           /\ n.citations = messagesOnly.citations

C10_Witness ==
    /\ normalized # None
    /\ Len(Get(agentResponse.output)) = 2
    /\ Get(agentResponse.output)[1].type = "tool_use"
    /\ Get(agentResponse.output)[1].content.kind = "string"
    /\ Get(agentResponse.output)[2].type = "message"
    /\ Get(normalized).choices[1].message.content = <<"a", "b">>

\* the citations of a normalized response as a list (absent = empty)
CitationList(n) == IF n.citations = None THEN << >> ELSE Get(n.citations)

\* url_citation annotations of the message items' blocks, in document order
AnnotationsOf(b) == IF b.annotations = None THEN << >> ELSE Get(b.annotations)
IsUrlCitation(a) == a.type = "url_citation"
CitationAnnotations(out) ==
    Flatten([i \in 1..Len(out) |->
        IF out[i].type = "message" /\ out[i].content.kind = "array"
        THEN Flatten([j \in 1..Len(out[i].content.blocks) |->
                SelectSeq(AnnotationsOf(out[i].content.blocks[j]), IsUrlCitation)])
        ELSE << >>])

CarriesUrl(a) == a.url # None
CarriesNonEmptyUrl(a) == a.url # None /\ a.url # Some("")
UrlsOf(anns) == [k \in 1..Len(anns) |-> Get(anns[k].url)]

\* C11 (as claimed): the citation list is the URLs of all url_citation
\* annotations of all content blocks of message items, in document order,
\* duplicates kept and no URL dropped.
C11_AllUrlsInOrder ==
    normalized # None =>
        CitationList(Get(normalized)) =
            UrlsOf(SelectSeq(CitationAnnotations(Get(agentResponse.output)), CarriesUrl))

\* C11 (amended): the citation list is the non-empty URLs of all url_citation
\* annotations of all content blocks of message items, in document order,
\* duplicates kept; an empty-string URL is left out.
C11_NonEmptyUrlsInOrder ==
    normalized # None =>
        CitationList(Get(normalized)) =
            UrlsOf(SelectSeq(CitationAnnotations(Get(agentResponse.output)),
                             CarriesNonEmptyUrl))

C11_Witness ==
    /\ normalized # None
    /\ Len(Get(agentResponse.output)) = 2
    /\ CitationList(Get(normalized)) = <<"u4", "u1", "u1">>

\* C12: whenever the normalized response carries usage, total_tokens equals
\* prompt_tokens + completion_tokens.
C12_TotalIsSum ==
    (normalized # None /\ Get(normalized).usage # None) =>
        LET u == Get(Get(normalized).usage)
        IN Get(u.total_tokens) = Get(u.prompt_tokens) + Get(u.completion_tokens)

\* C13: a normalized response never carries an empty citations list;
\* citations is present exactly when at least one URL was extracted.
C13_CitationsNeverEmpty ==
    normalized # None =>
        /\ Get(normalized).citations # Some(<< >>)
        /\ Get(normalized).citations # None <=>
              SelectSeq(CitationAnnotations(Get(agentResponse.output)),
                        CarriesNonEmptyUrl) # << >>

C13_Witness ==
    /\ normalized # None
    /\ Get(normalized).citations = None
    /\ Get(agentResponse.output)[1].type = "tool_result"
    /\ Get(agentResponse.output)[1].content.kind = "array"

\* C14: normalization is total on schema-valid input: it does not throw and
\* its result passes ChatResponse validation with exactly one choice, index 0,
\* role assistant, also when the content is empty.
C14_NormalizationTotal ==
    GrokAgentResponseSchema(agentResponse) =>
        /\ ~normalizeThrows(agentResponse)
        /\ normalized = None => ENABLED Normalize
        /\ normalized # None =>
              /\ GrokChatResponseSchema(Get(normalized))
              /\ Len(Get(normalized).choices) = 1
              /\ Get(normalized).choices[1].index = 0
              /\ Get(normalized).choices[1].message.role = "assistant"

C14_Witness ==
    /\ GrokAgentResponseSchema(agentResponse)
    /\ agentResponse.created_at = Undefined
    /\ normalized # None
    /\ Get(normalized).choices[1].message.content = << >>

\* ------------------------------------------------------------------------
\* Calendar arithmetic for the date-range claims, independent of toISODate
\* ------------------------------------------------------------------------
IsLeapYear(y) == (y % 4 = 0 /\ y % 100 # 0) \/ y % 400 = 0

DaysInMonth(y, m) ==
    IF m = 2 THEN (IF IsLeapYear(y) THEN 29 ELSE 28)
    ELSE IF m \in {4, 6, 9, 11} THEN 30 ELSE 31

\* the calendar day before dt
PrevDate(dt) ==
    IF dt.d > 1 THEN [dt EXCEPT !.d = @ - 1]
    ELSE IF dt.m > 1 THEN [y |-> dt.y, m |-> dt.m - 1, d |-> DaysInMonth(dt.y, dt.m - 1)]
    ELSE [y |-> dt.y - 1, m |-> 12, d |-> 31]

RECURSIVE DaysBack(_, _)
DaysBack(dt, k) == IF k = 0 THEN dt ELSE DaysBack(PrevDate(dt), k - 1)

\* leap years in 1..n
LeapYearsUpTo(n) == n \div 4 - n \div 100 + n \div 400

RECURSIVE DaysBeforeMonth(_, _)
DaysBeforeMonth(y, m) ==
    IF m = 1 THEN 0 ELSE DaysBeforeMonth(y, m - 1) + DaysInMonth(y, m - 1)

\* days from 1970-01-01 to dt
DayNumber(dt) ==
    365 * (dt.y - 1970) + (LeapYearsUpTo(dt.y - 1) - LeapYearsUpTo(1969))
        + DaysBeforeMonth(dt.y, dt.m) + (dt.d - 1)

\* dt is the UTC calendar date of instant t
IsDateOf(dt, t) ==
    /\ dt.m \in 1..12 /\ dt.d \in 1..DaysInMonth(dt.y, dt.m)
    /\ DayNumber(dt) * 86400 <= t
    /\ t < (DayNumber(dt) + 1) * 86400

BodyTools == Get(requestBody).tools
OneXSearch ==
    /\ BodyTools # None
    /\ Len(Get(BodyTools)) = 1
    /\ Get(BodyTools)[1].type = "x_search"
TheTool == Get(BodyTools)[1]

EffectiveWindow == IF reqCall.timeWindow = None THEN "4hr" ELSE Get(reqCall.timeWindow)
DaysBackFor(w) == IF w = "24hr" THEN 1 ELSE IF w = "7d" THEN 7 ELSE 0

\* C15: searchPosts and analyzeTopic attach exactly one x_search directive with
\* to_date = today and from_date = today (15min, 1hr, 4hr), today - 1 day
\* (24hr), today - 7 days (7d); without a window the window is 4hr.
C15_DateRangeByWindow ==
    (reqCall.op \in {"searchPosts", "analyzeTopic"}
       /\ EffectiveWindow \in {"15min", "1hr", "4hr", "24hr", "7d"}) =>
        /\ OneXSearch
        /\ TheTool.to_date # None
        /\ IsDateOf(Get(TheTool.to_date), reqNow)
        /\ TheTool.from_date =
              Some(DaysBack(Get(TheTool.to_date), DaysBackFor(EffectiveWindow)))
        /\ reqCall.timeWindow = None =>
              \E i \in 1..Len(Get(requestBody).input[1].content) :
                  Get(requestBody).input[1].content[i] = "4hr"

C15_Witness ==
    /\ reqCall.op = "searchPosts"
    /\ reqCall.timeWindow = Some("7d")
    /\ reqNow \div 86400 = 19787
    /\ TheTool.to_date = Some([y |-> 2024, m |-> 3, d |-> 5])
    /\ TheTool.from_date = Some([y |-> 2024, m |-> 2, d |-> 27])

\* C16: generalChat without search (the default) sends no tools field at all;
\* with search it sends exactly one {type: x_search} without dates.
C16_ToolsOmittedWithoutSearch ==
    reqCall.op = "generalChat" =>
        /\ reqCall.enableSearch \in {None, Some(FALSE)} => BodyTools = None
        /\ reqCall.enableSearch = Some(TRUE) =>
              BodyTools = Some(<<[type |-> "x_search", from_date |-> None,
                                  to_date |-> None]>>)

C16_Witness ==
    /\ reqCall.op = "generalChat"
    /\ reqCall.enableSearch = None
    /\ requestBody # None
    /\ BodyTools = None

\* C17: getTrends attaches one x_search directive whose from_date and to_date
\* are both today's date, whatever category and limit are given.
C17_TrendsUseToday ==
    reqCall.op = "getTrends" =>
        /\ OneXSearch
        /\ TheTool.to_date # None
        /\ IsDateOf(Get(TheTool.to_date), reqNow)
        /\ TheTool.from_date = TheTool.to_date

C17_Witness ==
    /\ reqCall.op = "getTrends"
    /\ reqCall.category = Some("technology")
    /\ reqCall.limit = Some(10)
    /\ reqNow = 20454 * 86400
    /\ TheTool.from_date = Some([y |-> 2026, m |-> 1, d |-> 1])

\* ------------------------------------------------------------------------
\* Concurrent invocations
\* ------------------------------------------------------------------------
\* chat() run on its own against the outcomes `outs`, from attempt a on:
\* the calls made, the waits taken and how it ended ("running" when `outs`
\* ends before the invocation does)
RECURSIVE RunAlone(_, _, _, _)
RunAlone(outs, a, made, waits) ==
    IF a >= 3
    THEN [pc |-> "thrown", calls |-> made, delays |-> waits, result |-> None,
          err |-> Some(GrokApiError(<<"Grok API request failed after max retries">>,
                                    0, None))]
    ELSE IF outs = << >>
    THEN [pc |-> "running", calls |-> made, delays |-> waits, result |-> None,
          err |-> None]
    ELSE LET o == Head(outs).o
             now == Head(outs).now
             thrown == TryBlockThrows(o, now)
         IN IF thrown = None
            THEN [pc |-> "returned", calls |-> made + 1, delays |-> waits,
                  result |-> Some(normalizeResponse(Get(o.payload), now)),
                  err |-> None]
            ELSE LET c == CatchClause(Get(thrown), a)
                 IN IF c.retry
                    THEN RunAlone(Tail(outs), a + 1, made + 1, Append(waits, c.delay))
                    ELSE [pc |-> "thrown", calls |-> made + 1, delays |-> waits,
                          result |-> None, err |-> c.error]

Terminal(inv) == inv.pc \in {"returned", "thrown"}

\* invocation i is what it would be had it run alone on its own outcomes
IsolatedFromOthers(i) ==
    LET inv == inflight[i]
        alone == RunAlone(inv.outs, 0, 0, << >>)
    IN /\ inv.delays = alone.delays
       /\ Terminal(inv) =>
             /\ alone.pc = inv.pc
             /\ alone.calls = inv.calls
             /\ alone.result = inv.result
             /\ alone.err = inv.err
       /\ ~Terminal(inv) => alone.pc = "running"

\* while i waits out its backoff, j can take its next step
NotHeldUpBy(i, j) ==
    /\ inflight[i].pc = "sleeping" /\ inflight[j].pc = "idle"
          => ENABLED ConcChatStart(j)
    /\ inflight[i].pc = "sleeping" /\ inflight[j].pc = "awaitPost"
          => ENABLED ConcPostSettles(j)
    /\ inflight[i].pc = "sleeping" /\ inflight[j].pc = "sleeping"
          => ENABLED ConcSleepElapses(j)

\* C18: with two chat() invocations interleaved at their POSTs and backoff
\* waits, each one's calls, waits and outcome are those of a run alone on its
\* own outcomes, and one's backoff wait never disables the other's next step.
\* No step changes the client's API key, base URL or default model.
C18_InvocationsIsolated ==
    /\ [](\A i \in Invocations : IsolatedFromOthers(i))
    /\ [](\A i, j \in Invocations : i # j => NotHeldUpBy(i, j))
    /\ [][clientState = "ready" => client' = client /\ clientState' = "ready"]_vars

\* invocation 1 is waiting out its second backoff while invocation 2, started
\* later, has already failed for good on a 400
C18_Witness ==
    /\ inflight[1].pc = "sleeping"
    /\ inflight[1].delays = <<2000, 4000>>
    /\ inflight[2].pc = "thrown"
    /\ inflight[2].calls = 1
    /\ Len(inflight[2].outs) = 1
    /\ inflight[2].outs[1].o = HttpError(400, Some("e1"))

\* ------------------------------------------------------------------------
\* The shared client
\* ------------------------------------------------------------------------
\* the reads that were served by a client
ServedReads == {k \in 1..Len(accesses) : accesses[k].served # 0}

\* C19: no client is constructed before the first property read on grokApi,
\* and from the first read that a constructed client serves on, every read
\* is served by that same client and the constructor is not run again.
C19_LazyAndOnce ==
    /\ accesses = << >> => grokApiInstance = None /\ ctorCalls = 0
    /\ \A k \in ServedReads : \A l \in k..Len(accesses) :
          /\ accesses[l].served = accesses[k].served
          /\ accesses[l].ctorCalls = accesses[k].ctorCalls
    /\ ServedReads # {} =>
          /\ grokApiInstance # None
          /\ Get(grokApiInstance).id = accesses[Len(accesses)].served
          /\ ctorCalls = accesses[Len(accesses)].ctorCalls

\* three reads of different properties, all served by the client the first
\* read constructed
C19_Witness ==
    /\ Len(accesses) = 3
    /\ accesses[1].prop = "searchPosts" /\ accesses[2].prop = "apiKey"
    /\ accesses[3].prop = "chat"
    /\ accesses[3].served = 1
    /\ ctorCalls = 1

\* ------------------------------------------------------------------------
\* The MCP call-tool handler
\* ------------------------------------------------------------------------
Handled == mcpPc = "done"
ResultPayload == Get(mcpResult).text[2]
FlaggedError == Get(mcpResult).isError = Some(TRUE)
CaughtA(errorName) == mcpThrown # None /\ Get(mcpThrown).name = errorName

\* arguments that miss a required field of every tool or carry none at all
PlainlyInvalidArgs == mcpRequest.args = None \/ mcpRequest.args = Some(NoArgs)

\* C20: a handled call always returns a result and never rejects; a
\* GrokApiError, a parameter error, an unknown tool name and any other error
\* each give a result with isError true; for a GrokApiError the payload
\* carries its message, status and response details; a call that succeeded
\* gives a result without the isError field.
C20_HandlerNeverThrows ==
    Handled =>
       /\ mcpResult # None
       /\ ~Get(mcpResult).escaped
       /\ mcpThrown # None => FlaggedError
       /\ mcpThrown = None => Get(mcpResult).isError = None /\ ResultPayload.error = None
       /\ CaughtA("GrokApiError") =>
             /\ ResultPayload.error = Some(Get(mcpThrown).message)
             /\ ResultPayload.status = Some(Get(mcpThrown).status)
             /\ ResultPayload.details = Get(mcpThrown).response
       /\ mcpRequest.name \notin ToolNames =>
             /\ FlaggedError
             /\ ResultPayload.error = Some(<<"Unknown tool: ", mcpRequest.name>>)
       /\ mcpRequest.name \in {"grok_search_posts", "grok_analyze_topic", "grok_chat"}
          /\ PlainlyInvalidArgs =>
             /\ FlaggedError
             /\ ResultPayload.error = Some(<<"Invalid parameters">>)
       /\ CaughtA("Error") => FlaggedError /\ ResultPayload.error = Some(Get(mcpThrown).message)

\* the client rejected a search with the upstream's 400 and its body, and the
\* handler returned that as an error result
C20_Witness ==
    /\ Handled
    /\ mcpRequest.name = "grok_search_posts"
    /\ CaughtA("GrokApiError")
    /\ Get(mcpThrown).status = 400
    /\ ResultPayload.details = Some("e1")
    /\ FlaggedError

\* the argument is absent
Missing(v) == v = None
\* the argument is a number below lo or above hi (tenths)
NumberOutside(v, lo, hi) ==
    v # None /\ Get(v).t = "number" /\ (Get(v).n < lo \/ Get(v).n > hi)
\* the argument is a string that is not one of `values`
StringOutside(v, values) == v # None /\ Get(v).t = "string" /\ Get(v).s \notin values

\* the violations of each tool's documented parameters
ViolatesToolSchema(name, a) ==
    CASE name = "grok_search_posts" ->
            \/ Missing(a.query)
            \/ NumberOutside(a.limit, 10, 500)
            \/ StringOutside(a.timeWindow, {"15min", "1hr", "4hr", "24hr", "7d"})
            \/ StringOutside(a.analysisType, {"sentiment", "themes", "both"})
      [] name = "grok_analyze_topic" ->
            \/ Missing(a.topic)
            \/ Missing(a.aspects)
            \/ NumberOutside(a.limit, 10, 500)
      [] name = "grok_get_trends" -> NumberOutside(a.limit, 10, 500)
      [] name = "grok_chat" ->
            \/ Missing(a.prompt)
            \/ NumberOutside(a.searchLimit, 10, 500)
            \/ NumberOutside(a.temperature, 0, 10)
      [] OTHER -> FALSE

RequestViolatesSchema ==
    /\ mcpRequest.name \in ToolNames
    /\ mcpRequest.args # None
    /\ ViolatesToolSchema(mcpRequest.name, Get(mcpRequest.args))

\* C21: a call whose arguments violate its tool's parameter schema is answered
\* at once with the 'Invalid parameters' error result; the client is never
\* invoked and grokApi is not even read, so no upstream call is made.
C21_InvalidArgsRejectedBeforeClient ==
    RequestViolatesSchema =>
       /\ Handled
       /\ FlaggedError
       /\ ResultPayload.error = Some(<<"Invalid parameters">>)
       /\ ResultPayload.issues # None
       /\ mcpClientCalls = 0
       /\ accesses = << >>
       /\ ctorCalls = 0

\* a grok_chat call with temperature 1.1 was turned away
C21_Witness ==
    /\ Handled
    /\ mcpRequest.name = "grok_chat"
    /\ mcpRequest.args # None
    /\ Get(mcpRequest.args).temperature = Some(JNum(11))
    /\ ResultPayload.error = Some(<<"Invalid parameters">>)
    /\ mcpClientCalls = 0

\* ------------------------------------------------------------------------
\* The configuration error
\* ------------------------------------------------------------------------
ChatFailuresTyped == pc = "thrown" => err # None /\ Get(err).name = "GrokApiError"

\* C22 (as stated): the error of a failed construction is a GrokApiError, like
\* the error of every failed chat().
C22_ConfigErrorIsGrokApiError ==
    /\ clientState = "failed" => ctorError # None /\ Get(ctorError).name = "GrokApiError"
    /\ ChatFailuresTyped

\* C22 (amended): a failed construction throws a plain Error with the message
\* 'GROK_API_KEY is required', before any upstream call; only the failures of
\* chat() are GrokApiErrors.
C22_ConfigErrorIsPlainError ==
    /\ clientState = "failed" =>
          /\ ctorError # None
          /\ Get(ctorError).name = "Error"
          /\ Get(ctorError).message = <<"GROK_API_KEY is required">>
          /\ calls = 0
    /\ ChatFailuresTyped

\* construction failed on a missing key: no argument and nothing configured
C22_Witness ==
    /\ clientState = "failed"
    /\ ctorArgs.apiKey = None
    /\ ctorArgs.configKey = None
    /\ ctorError # None

\* ------------------------------------------------------------------------
\* The created field
\* ------------------------------------------------------------------------
\* C23: the normalized created field is the upstream created_at whenever the
\* payload carries one, 0 included, and a clock reading only when it carries
\* none.
C23_CreatedIsUpstreamWhenPresent ==
    normalized # None =>
       IF agentResponse.created_at.t = "number"
       THEN Get(normalized).created = agentResponse.created_at
       ELSE Get(normalized).created \in {Num(n) : n \in NowValues}

\* ------------------------------------------------------------------------
\* Raw-payload validation
\* ------------------------------------------------------------------------
\* the reply is a 2xx whose payload fails AgentResponse validation while its
\* normalization passes ChatResponse validation
RawInvalidButNormalizable(o) ==
    /\ o.kind = "ok"
    /\ ~GrokAgentResponseSchema(Get(o.payload))
    /\ Get(o.payload).output # None
    /\ \A now \in NowValues : GrokChatResponseSchema(normalizeResponse(Get(o.payload), now))

\* C24: after such a reply chat() has returned the normalized response on
\* that very attempt: a warning was logged, no error raised, no wait begun
\* and no further upstream call made.
C24_RawValidationNonBlocking ==
    (Settled /\ RawInvalidButNormalizable(last)) =>
       /\ pc = "returned"
       /\ result \in {Some(normalizeResponse(Get(last.payload), now)) : now \in NowValues}
       /\ err = None
       /\ warnings >= 1
       /\ calls = Len(hist)
       /\ Len(delays) = Len(hist) - 1

\* the first reply carried the object tag 'chat.completion' and was returned
C24_Witness ==
    /\ hist = <<200>>
    /\ last.kind = "ok"
    /\ Get(last.payload).object = Some("chat.completion")
    /\ pc = "returned"
    /\ warnings = 1
    /\ calls = 1

\* ------------------------------------------------------------------------
\* Where the backoff waits fall
\* ------------------------------------------------------------------------
RECURSIVE SumSeq(_)
SumSeq(q) == IF q = << >> THEN 0 ELSE Head(q) + SumSeq(Tail(q))

\* the last settled attempt produced the response chat() returns
LastSucceeded ==
    /\ last.kind = "ok"
    /\ Get(last.payload).output # None
    /\ \A now \in NowValues : GrokChatResponseSchema(normalizeResponse(Get(last.payload), now))

InFlight == pc \in {"awaitPost", "sleeping"}
Ended == pc \in {"returned", "thrown"}

\* chat() left through the throw that follows the for loop
ReachedFinalThrow ==
    /\ pc = "thrown"
    /\ err = Some(GrokApiError(<<"Grok API request failed after max retries">>, 0, None))

\* C26: if every POST settles and every wait elapses, a started chat() ends,
\* either returning a ChatResponse or raising a GrokApiError, and stays
\* ended; the throw after the loop is never the way it ends.
C26_ChatTerminates ==
    /\ InFlight ~> Ended
    /\ [](pc = "returned" => result # None /\ err = None)
    /\ [](pc = "thrown" => err # None /\ Get(err).name = "GrokApiError" /\ result = None)
    /\ [](~ReachedFinalThrow)
    /\ [][Ended => pc' = pc]_vars

\* the invocation ended with a response on its third attempt
C26_Witness ==
    /\ pc = "returned"
    /\ Len(hist) = 3
    /\ delays = <<2000, 4000>>
    /\ result # None

\* ------------------------------------------------------------------------
\* What each attempt sends
\* ------------------------------------------------------------------------
\* the request every attempt is expected to send, from the caller's request
\* and the client alone
ExpectedPost(modelGiven) ==
    [url |-> client.baseUrl,
     contentType |-> "application/json",
     authorization |-> <<"Bearer ">> \o client.apiKey,
     body |-> [model |-> IF modelGiven THEN Get(request.model) ELSE client.defaultModel,
               input |-> request.input,
               tools |-> request.tools,
               temperature |-> request.temperature,
               max_tokens |-> request.max_tokens]]

AllAttemptsSend(post) ==
    /\ Len(sent) = calls
    /\ \A i \in 1..Len(sent) : sent[i] = post

\* C27 (as stated): every attempt sends the same URL, headers and body, with
\* the caller's model whenever the request has one.
C27_AttemptsSendSameRequest == AllAttemptsSend(ExpectedPost(request.model # None))

\* C27 (amended): every attempt sends the same URL, headers and body, with the
\* caller's model when the request has a non-empty one and the client's
\* default model otherwise.
C27_AttemptsSendSameRequestNonEmptyModel ==
    AllAttemptsSend(ExpectedPost(request.model # None /\ request.model # Some("")))

\* three attempts went out for a request that names its own model
C27_Witness ==
    /\ Len(sent) = 3
    /\ request.model = Some("grok-custom")
    /\ sent[1].body.model = "grok-custom"
    /\ sent[3] = sent[1]
    /\ delays = <<2000, 4000>>

\* ------------------------------------------------------------------------
\* Windows the switch does not know
\* ------------------------------------------------------------------------
KnownWindows == {"15min", "1hr", "4hr", "24hr", "7d"}

\* C28: searchPosts and analyzeTopic called with a window string outside
\* {15min, 1hr, 4hr, 24hr, 7d} send the range of 24hr: to_date = today and
\* from_date = the day before; with any window both dates are present and
\* from_date is not after to_date.
C28_UnknownWindowIsOneDay ==
    reqCall.op \in {"searchPosts", "analyzeTopic"} =>
        /\ OneXSearch
        /\ TheTool.from_date # None
        /\ TheTool.to_date # None
        /\ DayNumber(Get(TheTool.from_date)) <= DayNumber(Get(TheTool.to_date))
        /\ EffectiveWindow \notin KnownWindows =>
              /\ IsDateOf(Get(TheTool.to_date), reqNow)
              /\ DayNumber(Get(TheTool.from_date)) = DayNumber(Get(TheTool.to_date)) - 1
              /\ IsDateOf(Get(TheTool.from_date), reqNow - 86400)

\* analyzeTopic called with "30d" on 2024-03-01 asks for 2024-02-29 to 2024-03-01
C28_Witness ==
    /\ reqCall.op = "analyzeTopic"
    /\ reqCall.timeWindow = Some("30d")
    /\ TheTool.to_date = Some([y |-> 2024, m |-> 3, d |-> 1])
    /\ TheTool.from_date = Some([y |-> 2024, m |-> 2, d |-> 29])

\* ------------------------------------------------------------------------
\* The limit option
\* ------------------------------------------------------------------------
\* the body the recorded call would have sent at the same instant had its
\* limit / searchLimit option been lim
BodyWithLimit(lim) ==
    CASE reqCall.op = "searchPosts" ->
            BuildRequestBody(
               searchPosts(reqCall.text,
                           [timeWindow |-> reqCall.timeWindow, limit |-> lim,
                            analysisType |-> reqCall.analysisType], reqNow),
               ConfigModel)
      [] reqCall.op = "analyzeTopic" ->
            BuildRequestBody(
               analyzeTopic(reqCall.text, reqCall.aspects,
                            [limit |-> lim, timeWindow |-> reqCall.timeWindow], reqNow),
               ConfigModel)
      [] reqCall.op = "getTrends" ->
            BuildRequestBody(
               getTrends([category |-> reqCall.category, limit |-> lim], reqNow),
               ConfigModel)
      [] reqCall.op = "generalChat" ->
            BuildRequestBody(
               generalChat(reqCall.text,
                           [enableSearch |-> reqCall.enableSearch, searchLimit |-> lim,
                            temperature |-> reqCall.temperature]),
               ConfigModel)

BothEnded == Ended /\ legacy.pc \in {"returned", "thrown"}

MaxOf(a, b) == IF a >= b THEN a ELSE b

\* every successful reply either client received carried a schema-valid payload
RepliesSchemaValid ==
    \A k \in 1..MaxOf(calls, legacy.calls) :
        feed[k].kind = "ok" => GrokAgentResponseSchema(Get(feed[k].payload))

\* C30: run against the same sequence of upstream outcomes, in which every
\* successful reply is schema-valid, the legacy and the current client make
\* the same number of POSTs, wait the same delays in the same order and end
\* alike: both with a response, or both with a GrokApiError of the same status.
C30_SameRetryEngine ==
    (BothEnded /\ RepliesSchemaValid) =>
        /\ legacy.calls = calls
        /\ legacy.delays = delays
        /\ legacy.pc = pc
        /\ pc = "returned" => result # None /\ legacy.result # None
        /\ pc = "thrown" =>
              /\ Get(err).name = "GrokApiError"
              /\ Get(legacy.err).name = "GrokApiError"
              /\ Get(legacy.err).status = Get(err).status

\* both clients were rate-limited, then refused, and got through on the third POST
C30_Witness ==
    /\ BothEnded
    /\ feed # << >>
    /\ feed[1] = HttpError(429, Some("e1"))
    /\ feed[2] = OtherRejection(<<"Network error">>, TRUE)
    /\ feed[3] = Reply(GoodPayload)
    /\ pc = "returned" /\ legacy.pc = "returned"
    /\ calls = 3 /\ legacy.calls = 3
    /\ legacy.delays = <<2000, 4000>>

====
